---- MODULE Spec2Model ----
(***************************************************************************)
(* A model of the F1 analytics pipeline: the (year, round) extractors of   *)
(* scripts/extract_data.py with their progress file and output row file,   *)
(* the fetch client's backoff, the row-file writers, the loader of         *)
(* scripts/load_data.py and the quality gate of scripts/data_quality.py.   *)
(*                                                                         *)
(* Each part has its own specification over the shared variables; the      *)
(* variables of the other parts stay at their initial value.               *)
(***************************************************************************)
EXTENDS Integers, Sequences, FiniteSets, TLC

(***************************************************************************)
(* Bounds of the model.                                                    *)
(***************************************************************************)
NumYears == 2
MaxRound == 2
MaxRuns == 3
MaxCalls == 2
MaxWrites == 2
MaxKey == 2
MaxRows == 2
MaxLoads == 3
MaxStoreRaces == 2
MaxSkipped == 1
MaxSaves == 2
MaxReads == 2
MaxBadTables == 2
MaxListLen == 2
MaxNormCalls == 2
MaxLoaders == 3
MaxTableLoads == 3
\* The page size of the offset-paginated extractors (limit = 100 in the
\* code), scaled down, and the most rows an upstream list holds.
PageLimit == 2
MaxUpstream == 5
\* The page size of the pit-stop requests (limit = 1000 in the code), scaled
\* down, and the most pit stops the upstream holds for a race.
PitLimit == 2
MaxPitStops == 5

(***************************************************************************)
(* Program constants.                                                      *)
(***************************************************************************)
StartYear == 2015
EmptyThreshold == 10
MinRowsPerRace == 10
DefaultMaxBackoff == 2000
RateLimitThreshold == 3

EndYear == StartYear + NumYears - 1
Years == StartYear..EndYear
Rounds == 1..MaxRound
Unit == Years \X Rounds
Entities == {"results", "qualifying", "pit_stops"}

\* Rows the upstream holds for a unit: none, or twice the rows the truncation
\* heuristic expects of a race (so a file can pass the heuristic with units missing).
RowChoices == {0, 2 * MinRowsPerRace}

VARIABLES
    \* ---- (year, round) extraction: extract_results / _qualifying / _pit_stops
    entity,        \* which extractor this behaviour runs
    upstream,      \* Unit -> number of rows the API holds for the unit
    progressFile,  \* cache/<entity>_progress.json
    outFile,       \* raw/<entity>.csv
    tmpFile,       \* raw/<entity>.csv.tmp
    pc,            \* position of the running extractor
    year,          \* loop variable `year`
    roundsLeft,    \* rounds of `year` the inner loop has not reached yet
    progress,      \* the in-memory `progress` dict
    done_rounds,   \* the set `done_rounds` of the current year
    all_rows,      \* units whose rows were appended to all_results
    \* ---- history of the extraction (not program state)
    fetched,       \* units requested from the API in the current run
    passedOver,    \* units the current run skipped because of done_rounds
    startProgress, \* progress file when the current run started
    startOut,      \* output file when the current run started
    prevEnded,     \* how the run before the current one ended
    ended,         \* how the latest finished run ended
    runs,          \* extractor calls so far
    transient,     \* some fetch gave up on transient errors
    \* ---- the fetch client: _make_request / _backoff (delays in 1/100 s)
    base_delay,    \* self.base_delay
    max_base_delay,\* self.max_base_delay
    max_retries,   \* self.max_retries
    consecutive_rate_limits, \* self._consecutive_rate_limits
    attempt,       \* loop variable `attempt` of _make_request
    cpc,           \* position of the client: "idle" or "try"
    result,        \* what the latest _make_request returned
    lastDelay,     \* `delay` of the latest _backoff
    \* ---- history of the client (not program state)
    lastResp,      \* kind of the latest response
    prev_base,     \* base_delay before the latest response
    init_base,     \* base_delay as configured
    calls,         \* _make_request calls so far
    sent,          \* (history) HTTP requests issued by the current call
    waits,         \* (history) _backoff waits of the current call
    timed,         \* whether this behaviour follows the clock
    since,         \* time since self._last_request_ts, up to LongAgo
    lastSince,     \* (history) `elapsed` of the latest _rate_limit
    lastSlept,     \* (history) what the latest _rate_limit slept
    pacedBase,     \* (history) base_delay when the latest request was paced
    rateLimitedSince, \* (history) the 429s received since the last success
    \* ---- the row-file writers of the extract_* methods
    wFile,         \* the row file this behaviour writes
    wDest,         \* raw/<file>.csv
    wTmp,          \* raw/<file>.csv.tmp
    wpc,           \* position of the writer
    wPrior,        \* (history) the destination before the current write
    writes,        \* (history) writes started so far
    \* ---- the loader (F1DataLoader) and one table of the store
    dbType,        \* config["type"]
    mode,          \* self.mode
    strict_schema, \* self.strict_schema
    tbl,           \* the rows of the target table
    stg,           \* the staging table _stg_<table>
    table_loads,   \* (history) the row counts passed to _record_table_load
    lDf,           \* (history) the frame of the last _load_table call
    lBefore,       \* (history) the target table before that call
    lOutcome,      \* (history) how that call ended
    lIssues,       \* (history) whether validate_dataframe reported issues in it
    loads,         \* (history) _load_table calls so far
    \* ---- the quality gate (run_quality_checks) and the store it reads
    gRaces,        \* the <<year, round>> of the rows of races
    gRowed,        \* per entity, the races that have rows of it
    gSkipped,      \* skipped_rounds, as read from the progress files
    gDeviant,      \* the battery check whose tables are in a bad state
    gFault,        \* the check whose query raises
    gFailures,     \* the list run_quality_checks returns
    gOutcome,      \* "none", "returned" or "raised"
    \* ---- _save_progress and a concurrent reader of the progress file
    sInodes,       \* the files on disk: inode -> payload version, complete or not
    sDir,          \* the directory: path -> inode, or NoInode
    spc,           \* position of _save_progress
    saves,         \* _save_progress calls so far
    rpc,           \* position of the reader
    rInode,        \* the inode the reader has open
    rSeen,         \* the payload the reader read last
    rAtOpen,       \* (history) payload versions when the reader opened the path
    reads,         \* (history) reads finished so far
    \* ---- load_all: the run record and the tables in load order
    laStrict,      \* self.strict_schema
    laFiles,       \* table -> what its processed file holds
    lapc,          \* position of load_all: 0, the table to load next, the end
    runStatus,     \* status of the run record in pipeline_runs ("none": no record)
    statusChanges, \* (history) updates of that status
    laAttempted,   \* (history) tables whose load_* method ran, in order
    laWritten,     \* (history) tables that were written, in order
    run_tables,    \* tables with a record in pipeline_run_tables
    laOutcome,     \* "none", "returned" or "raised"
    \* ---- _load_progress and _normalize_progress on the JSON of the two paths
    nPrimary,      \* the file at the cache path
    nLegacy,       \* the file at the legacy (output) path
    nBefore,       \* (history) both files when the last _load_progress began
    nRet,          \* what the last call returned
    npc,           \* the last call: "none", "normalized" or "loaded"
    nCalls,        \* calls so far
    \* ---- the run metadata of the store, over successive loaders
    mDbType,             \* config["type"]
    pipeline_runs,       \* the rows of pipeline_runs
    pipeline_run_tables, \* the rows of pipeline_run_tables
    mLoader,             \* the live F1DataLoader: run_id, mode, position
    mLoaders,            \* loaders constructed so far (the last run_id given)
    mInvocations,        \* (history) load_all calls so far
    mEnded,              \* (history) the run records as they were when ended
    mWritten,            \* (history) <<run_id, table>> of the table writes that succeeded
    mLast,               \* (history) the last _load_table call
    mLoads,              \* _load_table calls so far, of all loaders
    \* ---- the quality step of run_full_pipeline
    envCI,         \* os.environ.get("CI"): "unset" or its value
    envGHA,        \* os.environ.get("GITHUB_ACTIONS"): "unset" or its value
    pOutcome,      \* "none", "passed", "warned", "raised" or "propagated"
    \* ---- the offset-paginated extractors (circuits, races per year, ...)
    pgEntity,      \* "circuits" or "races"
    pgUpstream,    \* per list, the number of rows the upstream holds
    pgIdx,         \* position in the lists to extract (the year loop)
    pgOffset,      \* offset
    pgRows,        \* all_circuits / all_races
    pgPages,       \* (history) the pages requested, in order
    pgpc,          \* "loop" or "done"
    \* ---- the round enumeration of the per-race extractors
    rcEntity,      \* the extractor: results, qualifying or pit_stops
    rcRaces,       \* races.csv: missing, unreadable, or its <<year, round>> rows
    rcAttempted,   \* (history) per year, the rounds the year loop walks
    rcpc,          \* "start" or "done"
    \* ---- the end-to-end scenario: transform_all, load_all, the gate
    smRaw,         \* the raw files: table -> frame
    smClean,       \* the processed files transform_all wrote
    smStore,       \* the store: table -> rows
    smpc,          \* "raw", "start", "load", "gate", "end"; "idle" when parked
    smIdx,         \* the position of load_all in LoadOrder
    smStatus,      \* the status of the run record
    smFailures,    \* the failing checks the gate reported
    \* ---- the year range of a saved progress file
    scData,        \* the progress handed to _save_progress: year -> rounds
    scRange,       \* <<start_year, end_year>> of the call
    scFile,        \* the progress file: missing, or its two mappings
    scBefore,      \* (history) the file before the call
    scpc,          \* "start" or "saved"
    \* ---- the pages of the (year, round) units of extract_pit_stops
    ppStops,       \* per round, the pit stops the upstream holds for the race
    ppRound,       \* round_num
    ppOffset,      \* offset
    ppSaw,         \* saw_data
    ppPages,       \* (history) per round, the pages requested, in order
    ppStatus,      \* per round, "none" or how it was recorded: "done", "skipped"
    pppc           \* "loop" or "returned"

extractVars == <<entity, upstream, progressFile, outFile, tmpFile, pc, year,
                 roundsLeft, progress, done_rounds, all_rows, fetched,
                 passedOver, startProgress, startOut, prevEnded, ended, runs,
                 transient>>

clientVars == <<base_delay, max_base_delay, max_retries, consecutive_rate_limits,
                attempt, cpc, result, lastDelay, lastResp, prev_base, init_base,
                calls, sent, waits, timed, since, lastSince, lastSlept,
                pacedBase, rateLimitedSince>>

writerVars == <<wFile, wDest, wTmp, wpc, wPrior, writes>>

loaderVars ==
    <<dbType, mode, strict_schema, tbl, stg, table_loads, lDf, lBefore,
      lOutcome, lIssues, loads>>

gateVars ==
    <<gRaces, gRowed, gSkipped, gDeviant, gFault, gFailures, gOutcome>>

saverVars ==
    <<sInodes, sDir, spc, saves, rpc, rInode, rSeen, rAtOpen, reads>>

runVars ==
    <<laStrict, laFiles, lapc, runStatus, statusChanges, laAttempted,
      laWritten, run_tables, laOutcome>>

normVars ==
    <<nPrimary, nLegacy, nBefore, nRet, npc, nCalls>>

metaVars ==
    <<mDbType, pipeline_runs, pipeline_run_tables, mLoader, mLoaders, mInvocations, mEnded, mWritten, mLast, mLoads>>

pipelineVars ==
    <<envCI, envGHA, pOutcome>>

pagerVars ==
    <<pgEntity, pgUpstream, pgIdx, pgOffset, pgRows, pgPages, pgpc>>

roundsVars ==
    <<rcEntity, rcRaces, rcAttempted, rcpc>>

smokeVars ==
    <<smRaw, smClean, smStore, smpc, smIdx, smStatus, smFailures>>

scopeVars ==
    <<scData, scRange, scFile, scBefore, scpc>>

pitVars ==
    <<ppStops, ppRound, ppOffset, ppSaw, ppPages, ppStatus, pppc>>

vars ==
    <<extractVars, clientVars, writerVars,
      loaderVars, gateVars, saverVars,
      runVars, normVars, metaVars,
      pipelineVars, pagerVars, roundsVars,
      smokeVars, scopeVars, pitVars>>

nonExtractVars ==
    <<clientVars, writerVars, loaderVars,
      gateVars, saverVars, runVars,
      normVars, metaVars, pipelineVars,
      pagerVars, roundsVars, smokeVars,
      scopeVars, pitVars>>
nonClientVars ==
    <<extractVars, writerVars, loaderVars,
      gateVars, saverVars, runVars,
      normVars, metaVars, pipelineVars,
      pagerVars, roundsVars, smokeVars,
      scopeVars, pitVars>>
nonWriterVars ==
    <<extractVars, clientVars, loaderVars,
      gateVars, saverVars, runVars,
      normVars, metaVars, pipelineVars,
      pagerVars, roundsVars, smokeVars,
      scopeVars, pitVars>>
nonLoaderVars ==
    <<extractVars, clientVars, writerVars,
      gateVars, saverVars, runVars,
      normVars, metaVars, pipelineVars,
      pagerVars, roundsVars, smokeVars,
      scopeVars, pitVars>>
nonGateVars ==
    <<extractVars, clientVars, writerVars,
      loaderVars, saverVars, runVars,
      normVars, metaVars, pipelineVars,
      pagerVars, roundsVars, smokeVars,
      scopeVars, pitVars>>
nonSaverVars ==
    <<extractVars, clientVars, writerVars,
      loaderVars, gateVars, runVars,
      normVars, metaVars, pipelineVars,
      pagerVars, roundsVars, smokeVars,
      scopeVars, pitVars>>
nonRunVars ==
    <<extractVars, clientVars, writerVars,
      loaderVars, gateVars, saverVars,
      normVars, metaVars, pipelineVars,
      pagerVars, roundsVars, smokeVars,
      scopeVars, pitVars>>
nonNormVars ==
    <<extractVars, clientVars, writerVars,
      loaderVars, gateVars, saverVars,
      runVars, metaVars, pipelineVars,
      pagerVars, roundsVars, smokeVars,
      scopeVars, pitVars>>
nonMetaVars ==
    <<extractVars, clientVars, writerVars,
      loaderVars, gateVars, saverVars,
      runVars, normVars, pipelineVars,
      pagerVars, roundsVars, smokeVars,
      scopeVars, pitVars>>
nonPipelineVars ==
    <<extractVars, clientVars, writerVars,
      loaderVars, gateVars, saverVars,
      runVars, normVars, metaVars,
      pagerVars, roundsVars, smokeVars,
      scopeVars, pitVars>>
nonPagerVars ==
    <<extractVars, clientVars, writerVars,
      loaderVars, gateVars, saverVars,
      runVars, normVars, metaVars,
      pipelineVars, roundsVars, smokeVars,
      scopeVars, pitVars>>
nonRoundsVars ==
    <<extractVars, clientVars, writerVars,
      loaderVars, gateVars, saverVars,
      runVars, normVars, metaVars,
      pipelineVars, pagerVars, smokeVars,
      scopeVars, pitVars>>
nonSmokeVars ==
    <<extractVars, clientVars, writerVars,
      loaderVars, gateVars, saverVars,
      runVars, normVars, metaVars,
      pipelineVars, pagerVars, roundsVars,
      scopeVars, pitVars>>
nonScopeVars ==
    <<extractVars, clientVars, writerVars,
      loaderVars, gateVars, saverVars,
      runVars, normVars, metaVars,
      pipelineVars, pagerVars, roundsVars,
      smokeVars, pitVars>>
nonPitVars ==
    <<extractVars, clientVars, writerVars,
      loaderVars, gateVars, saverVars,
      runVars, normVars, metaVars,
      pipelineVars, pagerVars, roundsVars,
      smokeVars, scopeVars>>

(***************************************************************************)
(* Files.                                                                  *)
(***************************************************************************)
NoRounds == [y \in Years |-> {}]
EmptyProgress == [years |-> NoRounds, skipped |-> NoRounds]
MissingProgressFile == [exists |-> FALSE, years |-> NoRounds, skipped |-> NoRounds]
MissingFile == [exists |-> FALSE, header |-> FALSE, units |-> {}]

ResultsColumns ==
    <<"race_id", "driver_ref", "constructor_ref", "number", "grid", "position",
      "position_text", "position_order", "points", "laps", "time_result",
      "milliseconds", "fastest_lap", "fastest_lap_rank", "fastest_lap_time",
      "fastest_lap_speed", "status">>
QualifyingColumns ==
    <<"race_id", "driver_ref", "constructor_ref", "number", "position",
      "q1", "q2", "q3">>
PitStopColumns ==
    <<"race_id", "driver_ref", "stop", "lap", "time_of_day", "duration",
      "milliseconds">>

Columns(e) ==
    IF e = "results" THEN ResultsColumns
    ELSE IF e = "qualifying" THEN QualifyingColumns
    ELSE PitStopColumns

RECURSIVE SumLen(_)
SumLen(cols) == IF cols = <<>> THEN 0 ELSE Len(Head(cols)) + SumLen(Tail(cols))

\* Bytes of a csv line of the given cells: the cells, the commas, the newline.
LineBytes(cells) == SumLen(cells) + Len(cells)

RECURSIVE SumRows(_, _)
SumRows(up, units) ==
    IF units = {} THEN 0
    ELSE LET u == CHOOSE x \in units : TRUE
         IN  up[u] + SumRows(up, units \ {u})

\* Data rows in the file: the rows of the units it holds.
DataRows(up, file) == SumRows(up, file.units)

\* os.path.getsize: a frame without columns is written as a lone newline; a data
\* row has at least its separators.
FileSize(e, up, file) ==
    IF file.header
    THEN LineBytes(Columns(e)) + DataRows(up, file) * Len(Columns(e))
    ELSE 1

OutputFileEmpty(e, up, file) ==
    ~file.exists \/ FileSize(e, up, file) < EmptyThreshold

\* A health check that only asks whether the file is there.
OutputHasRowsExistsOnly(up, file) == file.exists

\* The second readline() is non-empty: a line follows the first one.
OutputHasRows(up, file) ==
    file.exists /\ file.header /\ DataRows(up, file) > 0

\* enumerate() over the lines: the index of the last line, at least 0.
CountRows(up, file) ==
    IF ~file.exists THEN 0
    ELSE LET lines == IF file.header THEN 1 + DataRows(up, file) ELSE 1
         IN  IF lines - 1 > 0 THEN lines - 1 ELSE 0


(***************************************************************************)
(* The fetch client: _make_request and _backoff.  Delays are in hundredths *)
(* of a second; a product with 1.25 or 1.5 is rounded down.                *)
(***************************************************************************)
Min(a, b) == IF a < b THEN a ELSE b
Max(a, b) == IF a > b THEN a ELSE b

RECURSIVE Pow2(_)
Pow2(n) == IF n = 0 THEN 1 ELSE 2 * Pow2(n - 1)

\* Configurations: --base-delay 0.3 (--fast), 1.5 (default), 10; --max-base-delay
\* 2.0 (--fast), 8.0 (default); --max-retries 3 (--fast), 6 (default).
BaseDelayChoices == {30, 150, 1000}
MaxBaseDelayChoices == {200, 800}
MaxRetriesChoices == {3, 6}

\* The Retry-After header of a 429: absent (or empty), text float() accepts (a
\* number of seconds, which nothing keeps from being negative), or text float()
\* rejects (an HTTP date).
NoHint == [kind |-> "none", val |-> 0]
RetryAfterChoices ==
    {NoHint, [kind |-> "bad", val |-> 0]}
        \cup {[kind |-> "num", val |-> v] : v \in {-100, 0, 100, 500, 6000}}

\* base_delay * 1.25 with no cap.
DriftNoCap(base, maxBase) == (base * 5) \div 4

\* min(self.base_delay * 1.25, self.max_base_delay)
Drift(base, maxBase) == Min((base * 5) \div 4, maxBase)

\* min(self.base_delay * 1.5, self.max_base_delay), after 3 consecutive 429s
EscalateNever(base, maxBase) == base
Escalate(base, maxBase) == Min((base * 3) \div 2, maxBase)

\* _backoff: the delay to wait (jitter aside) ...
BackoffDelay(base, att, hint) ==
    IF hint.kind = "num" THEN hint.val
    ELSE IF hint.kind = "bad" THEN base
    ELSE Min(base * Pow2(att), DefaultMaxBackoff)

\* The base_delay of a _backoff that takes the hinted delay as it comes.
BackoffBaseHintOnly(base, maxBase, att, hint) ==
    IF hint.kind = "none" THEN Drift(base, maxBase)
    ELSE Min(BackoffDelay(base, att, hint), maxBase)

\* ... and the base_delay it leaves.
BackoffBase(base, maxBase, att, hint) ==
    IF hint.kind = "none" THEN Drift(base, maxBase)
    ELSE Min(Max(base, BackoffDelay(base, att, hint)), maxBase)

\* Time the upstream takes to answer, and time between two _make_request calls
\* (in a behaviour that does not follow the clock, no time passes).
LatencyChoices == IF timed THEN {0, 40} ELSE {0}
IdleChoices == IF timed THEN {0, 100} ELSE {0}

\* random.uniform(0, min(0.25, self.base_delay)): its two ends.
JitterChoices(base) == IF timed THEN {0, Min(25, base)} ELSE {0}

\* Elapsed times are followed up to LongAgo, which is longer than any base_delay;
\* _last_request_ts starts at 0.0, which is long ago.
LongAgo == DefaultMaxBackoff

\* _rate_limit: the time to sleep when `elapsed` has passed since the last request.
PacingSleepNone(base, elapsed) == 0
PacingSleep(base, elapsed) == IF elapsed < base THEN base - elapsed ELSE 0

\* time.sleep(wait_for) raises ValueError on a negative length.
SleepRaises(wait) == wait < 0

\* range(self.max_retries) is used up after attempt att.
RetriesExhausted(att, maxRetries) == att + 1 >= maxRetries

ClientInit ==
    /\ base_delay \in BaseDelayChoices
    /\ max_base_delay \in MaxBaseDelayChoices
    /\ max_retries \in MaxRetriesChoices
    /\ consecutive_rate_limits = 0
    /\ attempt = 0
    /\ cpc = "idle"
    /\ result = "none"
    /\ lastDelay = 0
    /\ lastResp = "none"
    /\ prev_base = base_delay
    /\ init_base = base_delay
    /\ calls = 0
    /\ sent = 0
    /\ waits = 0
    /\ timed = FALSE
    /\ since = LongAgo
    /\ lastSince = LongAgo
    /\ lastSlept = 0
    /\ pacedBase = base_delay
    /\ rateLimitedSince = 0

\* The same client followed with its clock, in the --fast configuration.
PacingInit ==
    /\ base_delay \in BaseDelayChoices
    /\ max_base_delay = 200
    /\ max_retries = 3
    /\ consecutive_rate_limits = 0
    /\ attempt = 0
    /\ cpc = "idle"
    /\ result = "none"
    /\ lastDelay = 0
    /\ lastResp = "none"
    /\ prev_base = base_delay
    /\ init_base = base_delay
    /\ calls = 0
    /\ sent = 0
    /\ waits = 0
    /\ timed = TRUE
    /\ since = LongAgo
    /\ lastSince = LongAgo
    /\ lastSlept = 0
    /\ pacedBase = base_delay
    /\ rateLimitedSince = 0

\* The client at rest, for the specifications of the other components.
ClientParked ==
    /\ base_delay = 150
    /\ max_base_delay = 800
    /\ max_retries = 6
    /\ consecutive_rate_limits = 0
    /\ attempt = 0
    /\ cpc = "idle"
    /\ result = "none"
    /\ lastDelay = 0
    /\ lastResp = "none"
    /\ prev_base = 150
    /\ init_base = 150
    /\ calls = 0
    /\ sent = 0
    /\ waits = 0
    /\ timed = FALSE
    /\ since = LongAgo
    /\ lastSince = LongAgo
    /\ lastSlept = 0
    /\ pacedBase = 150
    /\ rateLimitedSince = 0

\* _make_request is called, some time after the call before it returned.
MakeRequest ==
    /\ UNCHANGED nonClientVars
    /\ cpc = "idle"
    /\ calls < MaxCalls
    /\ calls' = calls + 1
    /\ cpc' = "try"
    /\ attempt' = 0
    /\ result' = "pending"
    /\ sent' = 0
    /\ waits' = 0
    /\ \E idle \in IdleChoices : since' = Min(since + idle, LongAgo)
    /\ UNCHANGED <<base_delay, max_base_delay, max_retries, consecutive_rate_limits,
                   lastDelay, lastResp, prev_base, init_base, timed, lastSince,
                   lastSlept, pacedBase, rateLimitedSince>>

\* An attempt begins: self._rate_limit() and self.session.get(url); the answer
\* is handled `after` later (the latency and, when the attempt backs off, the
\* wait of _backoff).
SendRequest(after) ==
    /\ lastSince' = since
    /\ lastSlept' = PacingSleep(base_delay, since)
    /\ pacedBase' = base_delay
    /\ sent' = sent + 1
    /\ since' = IF timed THEN Min(after, LongAgo) ELSE LongAgo
    /\ timed' = timed

\* The end of a failed attempt: the next one, or None once max_retries are used up.
NextAttempt ==
    IF ~RetriesExhausted(attempt, max_retries)
    THEN /\ attempt' = attempt + 1
         /\ cpc' = "try"
         /\ result' = "pending"
    ELSE /\ attempt' = attempt
         /\ cpc' = "idle"
         /\ result' = "None"

\* The response is a 429, with or without a Retry-After header. The ValueError of
\* a sleep of negative length is no RequestException: it leaves _make_request.
RateLimited ==
    /\ UNCHANGED nonClientVars
    /\ cpc = "try"
    /\ \E hint \in RetryAfterChoices, latency \in LatencyChoices :
         LET n == consecutive_rate_limits + 1
             b == IF n >= RateLimitThreshold
                  THEN Escalate(base_delay, max_base_delay)
                  ELSE base_delay
             nb == BackoffBase(b, max_base_delay, attempt, hint)
         IN  /\ consecutive_rate_limits' = n
             /\ rateLimitedSince' = rateLimitedSince + 1
             /\ lastDelay' = BackoffDelay(b, attempt, hint)
             /\ base_delay' = nb
             /\ lastResp' = IF hint.kind = "none" THEN "429" ELSE "429" \o hint.kind
             /\ \E jitter \in JitterChoices(nb) :
                  LET wait == BackoffDelay(b, attempt, hint) + jitter
                  IN  /\ SendRequest(latency + Max(wait, 0))
                      /\ IF SleepRaises(wait)
                         THEN /\ attempt' = attempt
                              /\ cpc' = "idle"
                              /\ result' = "raised"
                         ELSE NextAttempt
    /\ waits' = waits + 1
    /\ prev_base' = base_delay
    /\ UNCHANGED <<max_base_delay, max_retries, init_base, calls>>

\* The response is a 400 or a 404, handled as a failed attempt.
NotFoundRetried ==
    /\ UNCHANGED nonClientVars
    /\ cpc = "try"
    /\ lastResp' = "404"
    /\ prev_base' = base_delay
    /\ \E latency \in LatencyChoices : SendRequest(latency)
    /\ NextAttempt
    /\ UNCHANGED <<base_delay, max_base_delay, max_retries, consecutive_rate_limits,
                   lastDelay, init_base, calls, waits, rateLimitedSince>>

\* The response is a 400 or a 404: None, at once.
NotFound ==
    /\ UNCHANGED nonClientVars
    /\ cpc = "try"
    /\ cpc' = "idle"
    /\ result' = "None"
    /\ lastResp' = "404"
    /\ prev_base' = base_delay
    /\ \E latency \in LatencyChoices : SendRequest(latency)
    /\ UNCHANGED <<base_delay, max_base_delay, max_retries, consecutive_rate_limits,
                   attempt, lastDelay, init_base, calls, waits, rateLimitedSince>>

\* The except branch does not touch self._consecutive_rate_limits; a variant
\* that resets it there.
CounterAfterFaultReset(n) == 0
CounterAfterFault(n) == n

\* raise_for_status raises, or the request itself fails: a RequestException.
RequestFailed ==
    /\ UNCHANGED nonClientVars
    /\ cpc = "try"
    /\ lastDelay' = BackoffDelay(base_delay, attempt, NoHint)
    /\ base_delay' = BackoffBase(base_delay, max_base_delay, attempt, NoHint)
    /\ \E latency \in LatencyChoices :
         \E jitter \in JitterChoices(base_delay') :
           SendRequest(latency + lastDelay' + jitter)
    /\ waits' = waits + 1
    /\ lastResp' = "error"
    /\ prev_base' = base_delay
    /\ NextAttempt
    /\ consecutive_rate_limits' = CounterAfterFault(consecutive_rate_limits)
    /\ UNCHANGED <<max_base_delay, max_retries, init_base, calls,
                   rateLimitedSince>>

\* The response is a success: the counter is reset and the payload returned.
Succeeded ==
    /\ UNCHANGED nonClientVars
    /\ cpc = "try"
    /\ consecutive_rate_limits' = 0
    /\ rateLimitedSince' = 0
    /\ cpc' = "idle"
    /\ result' = "json"
    /\ lastResp' = "ok"
    /\ prev_base' = base_delay
    /\ \E latency \in LatencyChoices : SendRequest(latency)
    /\ UNCHANGED <<base_delay, max_base_delay, max_retries, attempt, lastDelay,
                   init_base, calls, waits>>

ClientNext ==
    \/ MakeRequest
    \/ RateLimited
    \/ NotFound
    \/ RequestFailed
    \/ Succeeded

(***************************************************************************)
(* The progress store.                                                     *)
(***************************************************************************)
\* _normalize_progress: an entry for every year of the range in both mappings,
\* each a sorted, de-duplicated list (here: a set) of rounds.
NormalizeProgress(data) ==
    [years   |-> [y \in Years |-> data.years[y]],
     skipped |-> [y \in Years |-> data.skipped[y]]]

\* A _load_progress that forgets what the file holds.
LoadProgressEmpty(pfile) == EmptyProgress

\* _load_progress: the primary path when it exists, else empty progress.
LoadProgress(pfile) ==
    IF ~pfile.exists THEN EmptyProgress
    ELSE NormalizeProgress([years |-> pfile.years, skipped |-> pfile.skipped])

\* A _save_progress that leaves the primary path as a fresh extractor finds it.
SaveProgressNothing(data) == MissingProgressFile

\* _save_progress: the normalized payload replaces the primary path.
SaveProgress(data) ==
    LET normalized == NormalizeProgress(data)
    IN  [exists |-> TRUE, years |-> normalized.years, skipped |-> normalized.skipped]

Recorded(p) == {u \in Unit : u[2] \in p.years[u[1]] \cup p.skipped[u[1]]}
RecordedDone(p) == {u \in Unit : u[2] \in p.years[u[1]]}

(***************************************************************************)
(* The (year, round) extractors.                                           *)
(***************************************************************************)
\* _get_rounds_by_year with races.csv present: the rounds of each year, sorted.
RoundsByYear(y) == [i \in 1..MaxRound |-> i]

RacesCount == NumYears * Len(RoundsByYear(StartYear))

\* A health check without the row count of the truncation heuristic.
RebuildNeededUnlessRows(e, up, file) ==
    OutputFileEmpty(e, up, file) \/ ~OutputHasRows(up, file)

\* The health check at the head of each extractor: the output is missing, under
\* 10 bytes or without a data row; for results and qualifying also when it holds
\* fewer than 10 rows per known race.
RebuildNeeded(e, up, file) ==
    \/ OutputFileEmpty(e, up, file)
    \/ ~OutputHasRows(up, file)
    \/ /\ e # "pit_stops"
       /\ RacesCount # 0
       /\ CountRows(up, file) < RacesCount * MinRowsPerRace

CheckedProgress(e, up, pfile, file) ==
    IF RebuildNeeded(e, up, file) THEN EmptyProgress ELSE LoadProgress(pfile)

\* The frame handed to _write_csv_atomic: results builds it from the row dicts
\* (no rows, no columns); qualifying and pit_stops name their columns.
FrameOf(e, up, units) ==
    [exists |-> TRUE,
     header |-> (e # "results") \/ SumRows(up, units) > 0,
     units  |-> units]

ExtractInit ==
    /\ entity \in Entities
    /\ upstream \in [Unit -> RowChoices]
    /\ progressFile = MissingProgressFile
    /\ outFile = MissingFile
    /\ tmpFile = MissingFile
    /\ pc = "idle"
    /\ year = StartYear
    /\ roundsLeft = <<>>
    /\ progress = EmptyProgress
    /\ done_rounds = {}
    /\ all_rows = {}
    /\ fetched = {}
    /\ passedOver = {}
    /\ startProgress = MissingProgressFile
    /\ startOut = MissingFile
    /\ prevEnded = "none"
    /\ ended = "none"
    /\ runs = 0
    /\ transient = FALSE

\* The extractor at rest, for the specifications of the other components.
ExtractParked ==
    /\ entity = "results"
    /\ upstream = [u \in Unit |-> 0]
    /\ progressFile = MissingProgressFile
    /\ outFile = MissingFile
    /\ tmpFile = MissingFile
    /\ pc = "idle"
    /\ year = StartYear
    /\ roundsLeft = <<>>
    /\ progress = EmptyProgress
    /\ done_rounds = {}
    /\ all_rows = {}
    /\ fetched = {}
    /\ passedOver = {}
    /\ startProgress = MissingProgressFile
    /\ startOut = MissingFile
    /\ prevEnded = "none"
    /\ ended = "none"
    /\ runs = 0
    /\ transient = FALSE

\* The extractor is called: rounds_by_year is read, and extract_results and
\* extract_pit_stops load the progress and check the output once.
StartRun ==
    /\ UNCHANGED nonExtractVars
    /\ pc \in {"idle", "done"}
    /\ runs < MaxRuns
    /\ runs' = runs + 1
    /\ pc' = "year"
    /\ year' = StartYear
    /\ roundsLeft' = <<>>
    /\ all_rows' = {}
    /\ done_rounds' = {}
    /\ progress' = IF entity = "qualifying" THEN EmptyProgress
                   ELSE CheckedProgress(entity, upstream, progressFile, outFile)
    /\ fetched' = {}
    /\ passedOver' = {}
    /\ startProgress' = progressFile
    /\ startOut' = outFile
    /\ prevEnded' = ended
    /\ UNCHANGED <<entity, upstream, progressFile, outFile, tmpFile, ended, transient>>

\* The head of the year loop; extract_qualifying loads and checks here, per year.
BeginYear ==
    /\ UNCHANGED nonExtractVars
    /\ UNCHANGED runs
    /\ pc = "year"
    /\ LET p == IF entity = "qualifying"
                THEN CheckedProgress(entity, upstream, progressFile, outFile)
                ELSE progress
       IN  /\ progress' = p
           /\ done_rounds' = p.years[year] \cup p.skipped[year]
    /\ roundsLeft' = RoundsByYear(year)
    /\ pc' = "round"
    /\ UNCHANGED <<entity, upstream, progressFile, outFile, tmpFile, year, all_rows,
                   fetched, passedOver, startProgress, startOut, prevEnded, ended,
                   transient>>

\* `if round_num in done_rounds: continue`
PassOver ==
    /\ UNCHANGED nonExtractVars
    /\ UNCHANGED runs
    /\ pc = "round"
    /\ roundsLeft # <<>>
    /\ Head(roundsLeft) \in done_rounds
    /\ roundsLeft' = Tail(roundsLeft)
    /\ passedOver' = passedOver \cup {<<year, Head(roundsLeft)>>}
    /\ UNCHANGED <<entity, upstream, progressFile, outFile, tmpFile, pc, year, progress,
                   done_rounds, all_rows, fetched, startProgress, startOut, prevEnded,
                   ended, transient>>

\* What _make_request and _extract_table give for a unit: "rows" (a race table
\* with rows), "noraces" (a payload without a race), "notfound" (None after a
\* 400/404), "gaveup" (None after max_retries failed attempts).
Responses(up, u) ==
    {"gaveup"} \cup (IF up[u] > 0 THEN {"rows"} ELSE {"notfound", "noraces"})

\* The body of the round loop for a unit that is not in done_rounds: the fetch,
\* the rows, the unit's entry in the progress and _save_progress.
FetchUnit ==
    /\ UNCHANGED nonExtractVars
    /\ UNCHANGED runs
    /\ pc = "round"
    /\ roundsLeft # <<>>
    /\ Head(roundsLeft) \notin done_rounds
    /\ LET r == Head(roundsLeft)
           u == <<year, r>>
       IN  \E resp \in Responses(upstream, u) :
             LET p == IF resp = "rows"
                      THEN [progress EXCEPT !.years[year] = @ \cup {r}]
                      ELSE [progress EXCEPT !.skipped[year] = @ \cup {r}]
             IN  /\ progress' = p
                 /\ progressFile' = SaveProgress(p)
                 /\ all_rows' = IF resp = "rows" THEN all_rows \cup {u} ELSE all_rows
                 /\ fetched' = fetched \cup {u}
                 /\ transient' = (transient \/ resp = "gaveup")
    /\ roundsLeft' = Tail(roundsLeft)
    /\ UNCHANGED <<entity, upstream, outFile, tmpFile, pc, year, done_rounds,
                   passedOver, startProgress, startOut, prevEnded, ended>>

\* The round loop of a year is exhausted.
EndYearLoop ==
    /\ UNCHANGED nonExtractVars
    /\ UNCHANGED runs
    /\ pc = "round"
    /\ roundsLeft = <<>>
    /\ IF year < EndYear
       THEN /\ year' = year + 1
            /\ pc' = "year"
       ELSE /\ year' = year
            /\ pc' = "write"
    /\ UNCHANGED <<entity, upstream, progressFile, outFile, tmpFile, roundsLeft,
                   progress, done_rounds, all_rows, fetched, passedOver, startProgress,
                   startOut, prevEnded, ended, transient>>

\* _write_csv_atomic, first half: df.to_csv(tmp_path).
WriteTmp ==
    /\ UNCHANGED nonExtractVars
    /\ UNCHANGED runs
    /\ pc = "write"
    /\ tmpFile' = FrameOf(entity, upstream, all_rows)
    /\ pc' = "replace"
    /\ UNCHANGED <<entity, upstream, progressFile, outFile, year, roundsLeft, progress,
                   done_rounds, all_rows, fetched, passedOver, startProgress, startOut,
                   prevEnded, ended, transient>>

\* _write_csv_atomic, second half: os.replace(tmp_path, path); the extractor
\* returns and its locals are gone.
ReplaceOut ==
    /\ UNCHANGED nonExtractVars
    /\ pc = "replace"
    /\ outFile' = tmpFile
    /\ tmpFile' = MissingFile
    /\ pc' = "done"
    /\ year' = StartYear
    /\ roundsLeft' = <<>>
    /\ progress' = EmptyProgress
    /\ done_rounds' = {}
    /\ all_rows' = {}
    /\ ended' = "completed"
    /\ UNCHANGED <<entity, upstream, progressFile, fetched, passedOver, startProgress,
                   startOut, prevEnded, runs, transient>>

\* The process is killed: the files stay as they are, the memory is gone.
Kill ==
    /\ UNCHANGED nonExtractVars
    /\ pc \in {"year", "round", "write", "replace"}
    /\ pc' = "idle"
    /\ year' = StartYear
    /\ roundsLeft' = <<>>
    /\ progress' = EmptyProgress
    /\ done_rounds' = {}
    /\ all_rows' = {}
    /\ fetched' = {}
    /\ passedOver' = {}
    /\ startProgress' = MissingProgressFile
    /\ startOut' = MissingFile
    /\ ended' = "killed"
    /\ UNCHANGED <<entity, upstream, progressFile, outFile, tmpFile, prevEnded, runs,
                   transient>>

ExtractNext ==
    \/ StartRun
    \/ BeginYear
    \/ PassOver
    \/ FetchUnit
    \/ EndYearLoop
    \/ WriteTmp
    \/ ReplaceOut
    \/ Kill


(***************************************************************************)
(* The same extractors started on files left by earlier versions or edited *)
(* by hand: any rounds recorded for the first year, and either no output   *)
(* or a complete one.                                                      *)
(***************************************************************************)
AnyProgressFile ==
    {[exists |-> TRUE,
      years |-> [y \in Years |-> IF y = StartYear THEN d ELSE {}],
      skipped |-> [y \in Years |-> IF y = StartYear THEN k ELSE {}]] :
        d \in SUBSET Rounds, k \in SUBSET Rounds}

ExtractAnyInit ==
    /\ entity \in Entities
    /\ upstream = [u \in Unit |-> 2 * MinRowsPerRace]
    /\ progressFile \in AnyProgressFile
    /\ outFile \in {MissingFile, FrameOf(entity, upstream, Unit)}
    /\ tmpFile = MissingFile
    /\ pc = "idle"
    /\ year = StartYear
    /\ roundsLeft = <<>>
    /\ progress = EmptyProgress
    /\ done_rounds = {}
    /\ all_rows = {}
    /\ fetched = {}
    /\ passedOver = {}
    /\ startProgress = MissingProgressFile
    /\ startOut = MissingFile
    /\ prevEnded = "none"
    /\ ended = "none"
    /\ runs = 0
    /\ transient = FALSE

(***************************************************************************)
(* The row-file writers: how each extract_* method puts its frame on disk. *)
(* A file is its version (the write that produced it) and whether all of   *)
(* its bytes are there.                                                    *)
(***************************************************************************)
RowFiles ==
    {"circuits", "seasons", "constructors", "drivers", "races", "results",
     "qualifying", "pit_stops", "constructor_standings", "driver_standings"}

\* The files written with self._write_csv_atomic; the others are written with
\* df.to_csv on the destination itself.
WrittenAtomically ==
    {"races", "results", "qualifying", "pit_stops", "constructor_standings",
     "driver_standings"}

NoFile == [exists |-> FALSE, version |-> 0, whole |-> TRUE]
PartialFile(v) == [exists |-> TRUE, version |-> v, whole |-> FALSE]
WholeFile(v) == [exists |-> TRUE, version |-> v, whole |-> TRUE]

WriterInit ==
    /\ wFile \in RowFiles
    /\ wDest = NoFile
    /\ wTmp = NoFile
    /\ wpc = "idle"
    /\ wPrior = NoFile
    /\ writes = 0

\* The writers at rest, for the specifications of the other components.
WriterParked ==
    /\ wFile = "circuits"
    /\ wDest = NoFile
    /\ wTmp = NoFile
    /\ wpc = "idle"
    /\ wPrior = NoFile
    /\ writes = 0

\* An extract_* method has its frame and starts to write it.
StartWrite ==
    /\ UNCHANGED nonWriterVars
    /\ wpc = "idle"
    /\ writes < MaxWrites
    /\ writes' = writes + 1
    /\ wPrior' = wDest
    /\ wpc' = "to_csv"
    /\ UNCHANGED <<wFile, wDest, wTmp>>

\* df.to_csv opens its path for writing, which truncates it: the temporary
\* sibling in _write_csv_atomic, the destination itself elsewhere.
ToCsvOpen ==
    /\ UNCHANGED nonWriterVars
    /\ wpc = "to_csv"
    /\ IF wFile \in WrittenAtomically
       THEN /\ wTmp' = PartialFile(writes)
            /\ wDest' = wDest
       ELSE /\ wDest' = PartialFile(writes)
            /\ wTmp' = wTmp
    /\ wpc' = "writing"
    /\ UNCHANGED <<wFile, wPrior, writes>>

\* df.to_csv has written every row and closes the file.
ToCsvClose ==
    /\ UNCHANGED nonWriterVars
    /\ wpc = "writing"
    /\ IF wFile \in WrittenAtomically
       THEN /\ wTmp' = WholeFile(writes)
            /\ wDest' = wDest
            /\ wpc' = "replace"
       ELSE /\ wDest' = WholeFile(writes)
            /\ wTmp' = wTmp
            /\ wpc' = "idle"
    /\ UNCHANGED <<wFile, wPrior, writes>>

\* os.replace(tmp_path, path)
OsReplace ==
    /\ UNCHANGED nonWriterVars
    /\ wpc = "replace"
    /\ wDest' = wTmp
    /\ wTmp' = NoFile
    /\ wpc' = "idle"
    /\ UNCHANGED <<wFile, wPrior, writes>>

\* The process is killed during a write.
KillWriter ==
    /\ UNCHANGED nonWriterVars
    /\ wpc # "idle"
    /\ wpc' = "idle"
    /\ UNCHANGED <<wFile, wDest, wTmp, wPrior, writes>>

WriterNext ==
    \/ StartWrite
    \/ ToCsvOpen
    \/ ToCsvClose
    \/ OsReplace
    \/ KillWriter

(***************************************************************************)
(* The loader.  One table of the store is modelled: its rows are pairs     *)
(* <<key, value>>, the key standing for the table's primary-key columns    *)
(* and the value for the other columns of the frame.                       *)
(***************************************************************************)
Keys == 1..MaxKey
Vals == {"a", "b"}
Rows == Keys \X Vals

\* The frames a load_* method may read: up to MaxRows rows, in file order,
\* where two rows may carry the same key.
Frames == UNION {[1..n -> Rows] : n \in 0..MaxRows}

Modes == {"full_refresh", "incremental"}
DbTypes == {"sqlite", "mysql"}

\* The primary key the table's DDL declares (the DDL is not part of the
\* sources; the store refuses a second row with the key of an existing one).
PrimaryKey(row) == row[1]

NoStaging == [exists |-> FALSE, rows |-> <<>>]
Staging(df) == [exists |-> TRUE, rows |-> df]

FrameRows(df) == {df[i] : i \in 1..Len(df)}

\* INSERT of one row that conflicts on the primary key, as the statement of
\* _load_table_incremental resolves it: the new row takes the place of the old.
UpsertRowIgnoring(t, row) ==
    IF \E r \in t : PrimaryKey(r) = PrimaryKey(row) THEN t ELSE t \cup {row}
UpsertRow(t, row) ==
    {r \in t : PrimaryKey(r) # PrimaryKey(row)} \cup {row}

\* INSERT ... SELECT ... FROM the staging table, row by row.
RECURSIVE UpsertRows(_, _)
UpsertRows(t, rows) ==
    IF rows = <<>> THEN t
    ELSE UpsertRows(UpsertRow(t, Head(rows)), Tail(rows))

\* df.to_sql(table, if_exists="append") is a plain INSERT: it is refused as a
\* whole when two rows would share a primary key.
KeyClash(t, df) ==
    \/ \E i, j \in 1..Len(df) : i # j /\ PrimaryKey(df[i]) = PrimaryKey(df[j])
    \/ \E i \in 1..Len(df) : \E r \in t : PrimaryKey(r) = PrimaryKey(df[i])

LoaderInit ==
    /\ dbType \in DbTypes
    /\ mode \in Modes
    /\ strict_schema \in BOOLEAN
    /\ tbl = {}
    /\ stg = NoStaging
    /\ table_loads = <<>>
    /\ lDf = <<>>
    /\ lBefore = {}
    /\ lOutcome = "none"
    /\ lIssues = FALSE
    /\ loads = 0

\* The loader at rest, for the specifications of the other components.
LoaderParked ==
    /\ dbType = "sqlite"
    /\ mode = "full_refresh"
    /\ strict_schema = TRUE
    /\ tbl = {}
    /\ stg = NoStaging
    /\ table_loads = <<>>
    /\ lDf = <<>>
    /\ lBefore = {}
    /\ lOutcome = "none"
    /\ lIssues = FALSE
    /\ loads = 0

\* A new F1DataLoader is constructed on the same store: a full refresh of a
\* SQLite store removes the database file and applies the schema again.
Connect ==
    /\ UNCHANGED nonLoaderVars
    /\ \E m \in Modes, s \in BOOLEAN :
         /\ mode' = m
         /\ strict_schema' = s
         /\ IF dbType = "sqlite" /\ m = "full_refresh"
            THEN /\ tbl' = {}
                 /\ stg' = NoStaging
                 /\ table_loads' = <<>>
            ELSE UNCHANGED <<tbl, stg, table_loads>>
    /\ lDf' = <<>>
    /\ lBefore' = tbl'
    /\ lOutcome' = "none"
    /\ lIssues' = FALSE
    /\ UNCHANGED <<dbType, loads>>

\* _validate_df: the issues are logged, and under strict_schema raised.
ValidateDfLogsOnly(issues, strict) == FALSE
ValidateDfRaises(issues, strict) == issues /\ strict

\* _load_table(df, table): issues is what validate_dataframe reports, fails
\* whether the store refuses the write statement.
LoadTable ==
    /\ UNCHANGED nonLoaderVars
    /\ loads < MaxLoads
    /\ loads' = loads + 1
    /\ \E df \in Frames, issues \in BOOLEAN, fails \in BOOLEAN :
         /\ lDf' = df
         /\ lBefore' = tbl
         /\ lIssues' = (issues /\ df # <<>>)
         /\ IF df = <<>>
            THEN /\ lOutcome' = "skipped"
                 /\ UNCHANGED <<tbl, stg, table_loads>>
            ELSE IF ValidateDfRaises(issues, strict_schema)
            THEN /\ lOutcome' = "schema_error"
                 /\ UNCHANGED <<tbl, stg, table_loads>>
            ELSE IF mode = "incremental"
            THEN IF fails
                 THEN /\ lOutcome' = "raised"
                      /\ stg' = Staging(df)
                      /\ UNCHANGED <<tbl, table_loads>>
                 ELSE /\ lOutcome' = "loaded"
                      /\ tbl' = UpsertRows(tbl, df)
                      /\ stg' = NoStaging
                      /\ table_loads' = Append(table_loads, Len(df))
            ELSE IF fails \/ KeyClash({}, df)
                 THEN /\ lOutcome' = "raised"
                      /\ tbl' = {}
                      /\ UNCHANGED <<stg, table_loads>>
                 ELSE /\ lOutcome' = "loaded"
                      /\ tbl' = FrameRows(df)
                      /\ table_loads' = Append(table_loads, Len(df))
                      /\ UNCHANGED stg
    /\ UNCHANGED <<dbType, mode, strict_schema>>

LoaderNext ==
    \/ Connect
    \/ LoadTable

(***************************************************************************)
(* The quality gate.  The store is the races table and, per entity, the    *)
(* races that have rows; the gate is run with start_year..end_year = Years.*)
(***************************************************************************)
GatedEntities == {"results", "qualifying"}

\* The races a store may hold: those of the range and one of the year before.
StoreRaces == Unit \cup {<<StartYear - 1, 1>>}

\* A key or an element of the skipped map as json.load gives it: ok says
\* whether int() accepts it, v is the integer it gives then.
Raw(n) == [ok |-> TRUE, v |-> n]
Garbage == [ok |-> FALSE, v |-> 0]
RawYears == {Raw(y) : y \in Years} \cup {Garbage}
RawRounds == {Raw(r) : r \in Rounds} \cup {Garbage}
RawEntries == [y : RawYears, r : RawRounds]

\* What skipped_rounds may hold for one entity: nothing, a map from year to
\* rounds (as its set of year/round entries), or a value that is not a map.
SkippedMaps ==
    {[shape |-> "none", entries |-> {}], [shape |-> "bad", entries |-> {}]}
        \cup {[shape |-> "dict", entries |-> S] :
                 S \in {T \in SUBSET RawEntries : Cardinality(T) <= MaxSkipped}}

\* _as_round_set, on a map: the entries int() accepts.
AsRoundSetNone(skipped) == {}
AsRoundSet(skipped) ==
    {<<e.y.v, e.r.v>> : e \in {x \in skipped.entries : x.y.ok /\ x.r.ok}}

BatteryChecks ==
    << [name |-> "results_non_empty", expected_zero |-> FALSE],
       [name |-> "drivers_non_empty", expected_zero |-> FALSE],
       [name |-> "races_non_empty", expected_zero |-> FALSE],
       [name |-> "races_outside_year_range", expected_zero |-> TRUE],
       [name |-> "drivers_unique", expected_zero |-> TRUE],
       [name |-> "constructors_unique", expected_zero |-> TRUE],
       [name |-> "circuits_unique", expected_zero |-> TRUE],
       [name |-> "races_unique", expected_zero |-> TRUE],
       [name |-> "results_race_fk", expected_zero |-> TRUE],
       [name |-> "results_driver_fk", expected_zero |-> TRUE],
       [name |-> "results_constructor_fk", expected_zero |-> TRUE],
       [name |-> "qualifying_race_fk", expected_zero |-> TRUE],
       [name |-> "pit_stops_race_fk", expected_zero |-> TRUE],
       [name |-> "results_points_non_negative", expected_zero |-> TRUE],
       [name |-> "results_laps_non_negative", expected_zero |-> TRUE],
       [name |-> "results_grid_non_negative", expected_zero |-> TRUE],
       [name |-> "results_position_order_non_negative",
        expected_zero |-> TRUE] >>

BatteryNames == {BatteryChecks[i].name : i \in 1..Len(BatteryChecks)}

\* The battery checks whose value the modelled tables decide.
StoreDecided ==
    {"results_non_empty", "races_non_empty", "races_outside_year_range"}

GuardedChecks ==
    {"missing_race_years", "races_missing_results", "races_missing_qualifying"}

\* The value the query of a battery check returns.
QueryValue(check) ==
    CASE check.name = "results_non_empty" -> Cardinality(gRowed["results"])
      [] check.name = "races_non_empty" -> Cardinality(gRaces)
      [] check.name = "races_outside_year_range" ->
            Cardinality({p \in gRaces : p[1] \notin Years})
      [] OTHER ->
            IF (gDeviant = check.name) = check.expected_zero THEN 1 ELSE 0

BatteryFailure(check) ==
    IF check.expected_zero
    THEN IF QueryValue(check) # 0
         THEN << [check |-> check.name, value |-> QueryValue(check),
                  expected |-> "0"] >>
         ELSE <<>>
    ELSE IF QueryValue(check) = 0
         THEN << [check |-> check.name, value |-> 0, expected |-> "> 0"] >>
         ELSE <<>>

\* The failures of the battery checks i.., in order.
RECURSIVE BatteryFailures(_)
BatteryFailures(i) ==
    IF i > Len(BatteryChecks) THEN <<>>
    ELSE BatteryFailure(BatteryChecks[i]) \o BatteryFailures(i + 1)

ErrorFailure(name) ==
    << [check |-> name, value |-> "error", expected |-> "query_success"] >>

\* sorted(S), for a set of integers.
RECURSIVE Sorted(_)
Sorted(S) ==
    IF S = {} THEN <<>>
    ELSE LET m == CHOOSE x \in S : \A y \in S : x <= y
         IN  <<m>> \o Sorted(S \ {m})

\* A variant that reports the earliest missing year only.
MissingYearsFailureFirstOnly ==
    IF gFault = "missing_race_years" THEN ErrorFailure("missing_race_years")
    ELSE LET present == {p[1] : p \in {q \in gRaces : q[1] \in Years}}
             missing == Sorted(Years \ present)
         IN  IF missing # <<>>
             THEN << [check |-> "missing_race_years", value |-> <<missing[1]>>,
                      expected |-> "All years"] >>
             ELSE <<>>

MissingYearsFailure ==
    IF gFault = "missing_race_years" THEN ErrorFailure("missing_race_years")
    ELSE LET present == {p[1] : p \in {q \in gRaces : q[1] \in Years}}
             missing == Sorted(Years \ present)
         IN  IF missing # <<>>
             THEN << [check |-> "missing_race_years", value |-> missing,
                      expected |-> "All years"] >>
             ELSE <<>>

\* The races of the range without rows of entity e, as the LEFT JOIN gives.
MissingRows(e) == {p \in gRaces : p[1] \in Years /\ p \notin gRowed[e]}

MissingFailure(e) ==
    LET name == "races_missing_" \o e
    IN  IF gFault = name \/ gSkipped[e].shape = "bad" THEN ErrorFailure(name)
        ELSE LET skipped == IF gSkipped[e].shape = "none" THEN {}
                            ELSE AsRoundSet(gSkipped[e])
                 value == Cardinality(MissingRows(e) \ skipped)
             IN  IF value # 0
                 THEN << [check |-> name, value |-> value, expected |-> "0"] >>
                 ELSE <<>>

GateInit ==
    /\ gRaces \in {S \in SUBSET StoreRaces : Cardinality(S) <= MaxStoreRaces}
    /\ gRowed \in [GatedEntities -> SUBSET gRaces]
    /\ gSkipped \in [GatedEntities -> SkippedMaps]
    /\ gDeviant \in {"none"} \cup (BatteryNames \ StoreDecided)
    /\ gFault \in {"none"} \cup BatteryNames \cup GuardedChecks
    /\ gDeviant = "none" \/ gFault = "none"
    /\ gFailures = <<>>
    /\ gOutcome = "none"

\* The gate at rest, for the specifications of the other components.
GateParked ==
    /\ gRaces = {}
    /\ gRowed = [e \in GatedEntities |-> {}]
    /\ gSkipped = [e \in GatedEntities |-> [shape |-> "none", entries |-> {}]]
    /\ gDeviant = "none"
    /\ gFault = "none"
    /\ gFailures = <<>>
    /\ gOutcome = "none"

\* run_quality_checks(engine, start_year, end_year, skipped_rounds)
RunQualityChecks ==
    /\ UNCHANGED nonGateVars
    /\ gOutcome = "none"
    /\ IF gFault \in BatteryNames
       THEN /\ gOutcome' = "raised"
            /\ gFailures' = <<>>
       ELSE /\ gOutcome' = "returned"
            /\ gFailures' = BatteryFailures(1) \o MissingYearsFailure
                               \o MissingFailure("results")
                               \o MissingFailure("qualifying")
    /\ UNCHANGED <<gRaces, gRowed, gSkipped, gDeviant, gFault>>

GateNext == RunQualityChecks

(***************************************************************************)
(* _save_progress step by step, next to a reader that opens the primary    *)
(* progress path.  A payload is the number of the save that wrote it; a    *)
(* path names an inode, and an open file keeps its inode.                  *)
(***************************************************************************)
ProgressPath == "results_progress.json"

\* tmp_path = f"{path}.tmp"
TmpPathInPlace(path) == path
TmpPath(path) == path \o ".tmp"

Paths == {ProgressPath, ProgressPath \o ".tmp"}
NoInode == -1
Inodes == 0..MaxSaves

Payload(v, whole) == [version |-> v, whole |-> whole]
NothingRead == Payload(-1, TRUE)

SaverInit ==
    /\ sInodes = [i \in Inodes |-> Payload(0, i = 0)]
    /\ sDir \in {[p \in Paths |-> NoInode],
                 [p \in Paths |-> IF p = ProgressPath THEN 0 ELSE NoInode]}
    /\ spc = "idle"
    /\ saves = 0
    /\ rpc = "idle"
    /\ rInode = NoInode
    /\ rSeen = NothingRead
    /\ rAtOpen = [prev |-> 0, new |-> 0]
    /\ reads = 0

\* No save and no reader, for the specifications of the other components.
SaverParked ==
    /\ sInodes = [i \in Inodes |-> Payload(0, i = 0)]
    /\ sDir = [p \in Paths |-> NoInode]
    /\ spc = "idle"
    /\ saves = 0
    /\ rpc = "idle"
    /\ rInode = NoInode
    /\ rSeen = NothingRead
    /\ rAtOpen = [prev |-> 0, new |-> 0]
    /\ reads = 0

\* _save_progress is called: the payload is built.
SaveBegin ==
    /\ UNCHANGED nonSaverVars
    /\ spc = "idle"
    /\ saves < MaxSaves
    /\ saves' = saves + 1
    /\ spc' = "open"
    /\ UNCHANGED <<sInodes, sDir, rpc, rInode, rSeen, rAtOpen, reads>>

\* open(tmp_path, "w"): a new file, or the existing one cut to no bytes.
SaveOpenTmp ==
    /\ UNCHANGED nonSaverVars
    /\ spc = "open"
    /\ LET t == TmpPath(ProgressPath)
           i == IF sDir[t] = NoInode THEN saves ELSE sDir[t]
       IN  /\ sDir' = [sDir EXCEPT ![t] = i]
           /\ sInodes' = [sInodes EXCEPT ![i] = Payload(saves, FALSE)]
    /\ spc' = "dump"
    /\ UNCHANGED <<saves, rpc, rInode, rSeen, rAtOpen, reads>>

\* json.dump(payload, handle) and the end of the with block.
SaveDump ==
    /\ UNCHANGED nonSaverVars
    /\ spc = "dump"
    /\ LET i == sDir[TmpPath(ProgressPath)]
       IN  sInodes' = [sInodes EXCEPT ![i] = Payload(saves, TRUE)]
    /\ spc' = "replace"
    /\ UNCHANGED <<sDir, saves, rpc, rInode, rSeen, rAtOpen, reads>>

\* os.replace(tmp_path, path)
SaveReplace ==
    /\ UNCHANGED nonSaverVars
    /\ spc = "replace"
    /\ LET t == TmpPath(ProgressPath)
       IN  sDir' = IF t = ProgressPath THEN sDir
                   ELSE [sDir EXCEPT ![ProgressPath] = sDir[t], ![t] = NoInode]
    /\ spc' = "idle"
    /\ UNCHANGED <<sInodes, saves, rpc, rInode, rSeen, rAtOpen, reads>>

\* The process is killed during a save.
SaveKilled ==
    /\ UNCHANGED nonSaverVars
    /\ spc # "idle"
    /\ spc' = "idle"
    /\ UNCHANGED <<sInodes, sDir, saves, rpc, rInode, rSeen, rAtOpen, reads>>

\* A reader finds the primary path and opens it.
ReaderOpen ==
    /\ UNCHANGED nonSaverVars
    /\ rpc = "idle"
    /\ reads < MaxReads
    /\ sDir[ProgressPath] # NoInode
    /\ rInode' = sDir[ProgressPath]
    /\ rAtOpen' = [prev |-> sInodes[sDir[ProgressPath]].version, new |-> saves]
    /\ rpc' = "open"
    /\ UNCHANGED <<sInodes, sDir, spc, saves, rSeen, reads>>

\* The reader reads the file it has open, to the end.
ReaderRead ==
    /\ UNCHANGED nonSaverVars
    /\ rpc = "open"
    /\ rSeen' = sInodes[rInode]
    /\ reads' = reads + 1
    /\ rpc' = "idle"
    /\ UNCHANGED <<sInodes, sDir, spc, saves, rInode, rAtOpen>>

SaverNext ==
    \/ SaveBegin
    \/ SaveOpenTmp
    \/ SaveDump
    \/ SaveReplace
    \/ SaveKilled
    \/ ReaderOpen
    \/ ReaderRead

(***************************************************************************)
(* load_all: the run record and the load of every table in order.  What a  *)
(* table's load does is decided by its processed file and by the store.    *)
(***************************************************************************)
\* An order of the calls in which the results go in before the races.
LoadOrderResultsFirst ==
    << "seasons", "circuits", "constructors", "drivers", "results", "races",
       "qualifying", "pit_stops", "constructor_standings", "driver_standings" >>

LoadOrder ==
    << "seasons", "circuits", "constructors", "drivers", "races", "results",
       "qualifying", "pit_stops", "constructor_standings", "driver_standings" >>

\* Positions of load_all: 0 before _record_run_start, i before the i-th load,
\* Len(LoadOrder) + 1 before _record_run_end("success"), then the end.
LoadAllDone == Len(LoadOrder) + 2

Tables == {LoadOrder[i] : i \in 1..Len(LoadOrder)}

\* The file of a table: rows the store accepts; a header and no rows; no
\* columns at all; no file; rows that break the schema contract; rows the store
\* refuses.
FileKinds ==
    {"rows", "empty", "nocolumns", "missing", "bad_schema", "unwritable"}

\* load_results and load_qualifying catch pd.errors.EmptyDataError.
CatchEmptyData == {"results", "qualifying"}

\* load_standings looks at the path and its size before reading.
ChecksPath == {"constructor_standings", "driver_standings"}

\* _validate_df raises for a frame with issues under strict_schema only.
SchemaRaisesNever(strict, kind) == FALSE
SchemaRaises(strict, kind) == strict /\ kind = "bad_schema"

\* The load of table t raises.
TableRaises(strict, t, kind) ==
    \/ kind = "missing" /\ t \notin ChecksPath
    \/ kind = "nocolumns" /\ t \notin (CatchEmptyData \cup ChecksPath)
    \/ SchemaRaises(strict, kind)
    \/ kind = "unwritable"

\* The load of table t writes its rows and records the count.
TableWritten(strict, t, kind) ==
    \/ kind = "rows"
    \/ kind = "bad_schema" /\ ~SchemaRaises(strict, kind)

\* The status _record_run_end is called with.
RunEndStatusSuccess(raised) == "success"
RunEndStatus(raised) == IF raised THEN "failed" ELSE "success"

RunInit ==
    /\ laStrict \in BOOLEAN
    /\ laFiles \in UNION {
           {[t \in Tables |-> IF t \in bad THEN kinds[t] ELSE "rows"] :
               kinds \in [bad -> FileKinds \ {"rows"}]} :
           bad \in {s \in SUBSET Tables : Cardinality(s) <= MaxBadTables}}
    /\ lapc = 0
    /\ runStatus = "none"
    /\ statusChanges = 0
    /\ laAttempted = <<>>
    /\ laWritten = <<>>
    /\ run_tables = {}
    /\ laOutcome = "none"

\* No load_all, for the specifications of the other components.
RunParked ==
    /\ laStrict = TRUE
    /\ laFiles = [t \in Tables |-> "rows"]
    /\ lapc = 0
    /\ runStatus = "none"
    /\ statusChanges = 0
    /\ laAttempted = <<>>
    /\ laWritten = <<>>
    /\ run_tables = {}
    /\ laOutcome = "none"

\* load_all begins: _record_run_start()
RecordRunStart ==
    /\ UNCHANGED nonRunVars
    /\ lapc = 0
    /\ runStatus' = "running"
    /\ lapc' = 1
    /\ UNCHANGED <<laStrict, laFiles, statusChanges, laAttempted, laWritten,
                   run_tables, laOutcome>>

\* The next load_* call of the try block; when it raises, the except block:
\* _record_run_end("failed") and raise.
LoadStep ==
    /\ UNCHANGED nonRunVars
    /\ lapc \in 1..Len(LoadOrder)
    /\ LET t == LoadOrder[lapc]
           kind == laFiles[t]
       IN  /\ laAttempted' = Append(laAttempted, t)
           /\ IF TableRaises(laStrict, t, kind)
              THEN /\ runStatus' = RunEndStatus(TRUE)
                   /\ statusChanges' = statusChanges + 1
                   /\ laOutcome' = "raised"
                   /\ lapc' = LoadAllDone
                   /\ UNCHANGED <<laWritten, run_tables>>
              ELSE /\ IF TableWritten(laStrict, t, kind)
                      THEN /\ laWritten' = Append(laWritten, t)
                           /\ run_tables' = run_tables \cup {t}
                      ELSE UNCHANGED <<laWritten, run_tables>>
                   /\ lapc' = lapc + 1
                   /\ UNCHANGED <<runStatus, statusChanges, laOutcome>>
    /\ UNCHANGED <<laStrict, laFiles>>

\* Every load_* call returned: _record_run_end("success")
RecordRunEnd ==
    /\ UNCHANGED nonRunVars
    /\ lapc = Len(LoadOrder) + 1
    /\ runStatus' = RunEndStatus(FALSE)
    /\ statusChanges' = statusChanges + 1
    /\ laOutcome' = "returned"
    /\ lapc' = LoadAllDone
    /\ UNCHANGED <<laStrict, laFiles, laAttempted, laWritten, run_tables>>

RunNext ==
    \/ RecordRunStart
    \/ LoadStep
    \/ RecordRunEnd

(***************************************************************************)
(* _normalize_progress and _load_progress on what json.load can give.  A   *)
(* value of a rounds list is an int, a bool (an int for isinstance), a     *)
(* string of decimal digits, a string of digits int() rejects (such as a   *)
(* superscript two, for which str.isdigit() is True), or other text.       *)
(***************************************************************************)
RawValues ==
    {[kind |-> k, n |-> n] : k \in {"int", "decimal"}, n \in Rounds}
        \cup {[kind |-> "bool", n |-> 1],
              [kind |-> "superscript", n |-> 2],
              [kind |-> "text", n |-> 0]}

RawLists == UNION {[1..l -> RawValues] : l \in 0..MaxListLen}

\* What a year key maps to: a list, or something that is no list.
RoundEntries == {[list |-> TRUE, vals |-> s] : s \in RawLists}
                  \cup {[list |-> FALSE, vals |-> <<>>]}

NoEntry == [list |-> TRUE, vals |-> <<>>]

\* The parsed document: a dict with a dict under "years" ("versioned"), a dict
\* without one, whose own keys are taken as the years ("flat"), or no dict; in
\* each case "skipped" is a dict or is not. Only the first year has entries.
JsonData(shape, hasSkipped, ys, ss) ==
    [shape      |-> shape,
     hasSkipped |-> hasSkipped,
     years      |-> [y \in Years |-> IF y = StartYear THEN ys ELSE NoEntry],
     skipped    |-> [y \in Years |-> IF y = StartYear THEN ss ELSE NoEntry]]

NoData == JsonData("other", FALSE, NoEntry, NoEntry)

JsonDocuments ==
    {JsonData(shape, TRUE, ys, ss) :
        shape \in {"versioned", "flat"}, ys \in RoundEntries, ss \in RoundEntries}
        \cup {JsonData("flat", FALSE, ys, NoEntry) : ys \in RoundEntries}
        \cup {NoData}

\* A path: no file, a file json.load fails on, or a file with a document.
MissingPath == [kind |-> "missing", data |-> NoData]
GarbagePath == [kind |-> "garbage", data |-> NoData]
JsonPath(d) == [kind |-> "json", data |-> d]

\* The loop over a rounds list: ints and bools are appended as they are, digit
\* strings through int(), which raises ValueError on a digit that is no decimal.
RECURSIVE CleanRounds(_)
CleanRounds(vals) ==
    IF vals = <<>> THEN [raised |-> FALSE, vals |-> <<>>]
    ELSE LET v == Head(vals)
             rest == CleanRounds(Tail(vals))
         IN  IF v.kind = "superscript" THEN [raised |-> TRUE, vals |-> <<>>]
             ELSE IF rest.raised THEN rest
             ELSE IF v.kind \in {"int", "bool"}
                  THEN [raised |-> FALSE, vals |-> <<v>> \o rest.vals]
             ELSE IF v.kind = "decimal"
                  THEN [raised |-> FALSE,
                        vals |-> <<[kind |-> "int", n |-> v.n]>> \o rest.vals]
             ELSE rest

RECURSIVE Ascending(_)
Ascending(S) ==
    IF S = {} THEN <<>>
    ELSE LET least == CHOOSE x \in S : \A y \in S : x <= y
         IN  <<least>> \o Ascending(S \ {least})

\* sorted(set(cleaned)): of equal values (True == 1) the set keeps the first.
SortedSet(vals) ==
    LET ns == Ascending({vals[i].n : i \in DOMAIN vals})
        first(n) == CHOOSE i \in DOMAIN vals :
                        /\ vals[i].n = n
                        /\ \A j \in 1..(i - 1) : vals[j].n # n
    IN  [k \in DOMAIN ns |-> vals[first(ns[k])]]

\* One year of one mapping: the entry, when it is a list, cleaned and sorted.
NormalizedRounds(entry) ==
    IF ~entry.list THEN [raised |-> FALSE, vals |-> <<>>]
    ELSE LET cleaned == CleanRounds(entry.vals)
         IN  IF cleaned.raised THEN cleaned
             ELSE [raised |-> FALSE, vals |-> SortedSet(cleaned.vals)]

NoRoundLists == [y \in Years |-> <<>>]

\* {"years": {}, "skipped": {}}: the progress returned when the load fails.
BareProgress == [raised |-> FALSE, keyed |-> FALSE,
                 years |-> NoRoundLists, skipped |-> NoRoundLists]

\* _normalize_progress(data, start_year, end_year) over Years.
NormalizeProgressJson(data) ==
    LET ys == [y \in Years |->
                 NormalizedRounds(IF data.shape = "other" THEN NoEntry
                                  ELSE data.years[y])]
        ss == [y \in Years |->
                 NormalizedRounds(IF data.shape = "other" \/ ~data.hasSkipped
                                  THEN NoEntry ELSE data.skipped[y])]
    IN  IF \E y \in Years : ys[y].raised \/ ss[y].raised
        THEN [raised |-> TRUE, keyed |-> FALSE,
              years |-> NoRoundLists, skipped |-> NoRoundLists]
        ELSE [raised |-> FALSE, keyed |-> TRUE,
              years |-> [y \in Years |-> ys[y].vals],
              skipped |-> [y \in Years |-> ss[y].vals]]

\* The payload _save_progress writes for a normalized progress, as a document.
PayloadOf(p) ==
    [shape      |-> "versioned",
     hasSkipped |-> TRUE,
     years      |-> [y \in Years |-> [list |-> TRUE, vals |-> p.years[y]]],
     skipped    |-> [y \in Years |-> [list |-> TRUE, vals |-> p.skipped[y]]]]

\* `except Exception: return {"years": {}, "skipped": {}}`, against a loop that
\* goes on to the next candidate.
AfterFailureNext(next) == next
AfterFailure(next) == [ret |-> BareProgress, save |-> FALSE]

\* `if candidate == legacy_path and not os.path.exists(path)`
MigratesNever(candidate, primary) == FALSE
Migrates(candidate, primary) == candidate = "legacy" /\ primary.kind = "missing"

\* One candidate of try_paths: skipped when missing, else opened, parsed and
\* normalized; `next` is what the rest of the loop gives.
TryPath(candidate, file, primary, next) ==
    IF file.kind = "missing" THEN next
    ELSE IF file.kind = "garbage" THEN AfterFailure(next)
    ELSE LET normalized == NormalizeProgressJson(file.data)
         IN  IF normalized.raised THEN AfterFailure(next)
             ELSE [ret |-> normalized, save |-> Migrates(candidate, primary)]

\* _load_progress: the primary path, then the legacy path, then nothing.
LoadProgressFrom(primary, legacy) ==
    TryPath("primary", primary, primary,
        TryPath("legacy", legacy, primary,
            [ret |-> BareProgress, save |-> FALSE]))

NormInit ==
    /\ \E d \in JsonDocuments :
         /\ nPrimary \in {MissingPath, GarbagePath, JsonPath(d)}
         /\ nLegacy \in {MissingPath, GarbagePath, JsonPath(d)}
    /\ nBefore = [primary |-> nPrimary, legacy |-> nLegacy]
    /\ nRet = BareProgress
    /\ npc = "none"
    /\ nCalls = 0

\* No progress file is read, for the specifications of the other components.
NormParked ==
    /\ nPrimary = MissingPath
    /\ nLegacy = MissingPath
    /\ nBefore = [primary |-> MissingPath, legacy |-> MissingPath]
    /\ nRet = BareProgress
    /\ npc = "none"
    /\ nCalls = 0

\* _normalize_progress is called on the document of a file.
NormalizeCall ==
    /\ UNCHANGED nonNormVars
    /\ nCalls < MaxNormCalls
    /\ \E f \in {nPrimary, nLegacy} :
         /\ f.kind = "json"
         /\ nBefore' = [primary |-> f, legacy |-> f]
         /\ nRet' = NormalizeProgressJson(f.data)
    /\ npc' = "normalized"
    /\ nCalls' = nCalls + 1
    /\ UNCHANGED <<nPrimary, nLegacy>>

\* _load_progress is called; a migrated progress is saved to the primary path.
LoadProgressCall ==
    /\ UNCHANGED nonNormVars
    /\ nCalls < MaxNormCalls
    /\ LET out == LoadProgressFrom(nPrimary, nLegacy)
       IN  /\ nRet' = out.ret
           /\ nPrimary' = IF out.save
                          THEN JsonPath(PayloadOf(NormalizeProgressJson(PayloadOf(out.ret))))
                          ELSE nPrimary
    /\ nBefore' = [primary |-> nPrimary, legacy |-> nLegacy]
    /\ npc' = "loaded"
    /\ nCalls' = nCalls + 1
    /\ UNCHANGED nLegacy

NormNext ==
    \/ NormalizeCall
    \/ LoadProgressCall

(***************************************************************************)
(* The run metadata: pipeline_runs and pipeline_run_tables over a sequence *)
(* of loaders on one store.  A run_id is uuid4(): here the number of the   *)
(* loader.                                                                 *)
(***************************************************************************)
MetaTables == {"races", "results"}
RowCounts == 1..MaxRows

RunRecord(id, status, isEnded, m) ==
    [run_id |-> id, status |-> status, ended |-> isEnded, mode |-> m]
TableRecord(id, t, rows) == [run_id |-> id, table_name |-> t, rows_loaded |-> rows]

NoLoader == [run_id |-> 0, mode |-> "full_refresh", pc |-> "none"]
NoLoad == [run_id |-> 0, table_name |-> "races", rows |-> 0, ok |-> FALSE]

\* _connect: a full refresh removes the file of a SQLite database, and with it
\* every table in it.
RemovesDatabase(db, m) == db = "sqlite" /\ m = "full_refresh"

\* An INSERT that adds a record whatever the table holds.
RecordTableLoadInsert(records, id, t, rows) ==
    records \cup {TableRecord(id, t, rows)}

\* _record_table_load: INSERT ... ON CONFLICT(run_id, table_name) DO UPDATE /
\* ON DUPLICATE KEY UPDATE rows_loaded.
RecordTableLoad(records, id, t, rows) ==
    {r \in records : ~(r.run_id = id /\ r.table_name = t)}
        \cup {TableRecord(id, t, rows)}

\* _record_run_end: UPDATE pipeline_runs SET ended_at, status WHERE run_id.
RecordRunEndOf(records, id, status) ==
    {IF r.run_id = id THEN RunRecord(r.run_id, status, TRUE, r.mode) ELSE r :
        r \in records}

MetaInit ==
    /\ mDbType \in DbTypes
    /\ pipeline_runs = {}
    /\ pipeline_run_tables = {}
    /\ mLoader = NoLoader
    /\ mLoaders = 0
    /\ mInvocations = 0
    /\ mEnded = {}
    /\ mWritten = {}
    /\ mLast = NoLoad
    /\ mLoads = 0

\* No loader, for the specifications of the other components.
MetaParked ==
    /\ mDbType = "sqlite"
    /\ pipeline_runs = {}
    /\ pipeline_run_tables = {}
    /\ mLoader = NoLoader
    /\ mLoaders = 0
    /\ mInvocations = 0
    /\ mEnded = {}
    /\ mWritten = {}
    /\ mLast = NoLoad
    /\ mLoads = 0

\* F1DataLoader(mode=m): a fresh run_id, _connect and _ensure_metadata_tables
\* (the loader before it is gone, whatever it was doing).
ConstructLoader ==
    /\ UNCHANGED nonMetaVars
    /\ mLoaders < MaxLoaders
    /\ mLoaders' = mLoaders + 1
    /\ \E m \in Modes :
         /\ mLoader' = [run_id |-> mLoaders + 1, mode |-> m, pc |-> "constructed"]
         /\ IF RemovesDatabase(mDbType, m)
            THEN /\ pipeline_runs' = {}
                 /\ pipeline_run_tables' = {}
            ELSE UNCHANGED <<pipeline_runs, pipeline_run_tables>>
    /\ UNCHANGED <<mDbType, mInvocations, mEnded, mWritten, mLast, mLoads>>

\* load_all begins: _record_run_start.
MetaRunStart ==
    /\ UNCHANGED nonMetaVars
    /\ mLoader.pc = "constructed"
    /\ pipeline_runs' = pipeline_runs
           \cup {RunRecord(mLoader.run_id, "running", FALSE, mLoader.mode)}
    /\ mLoader' = [mLoader EXCEPT !.pc = "running"]
    /\ mInvocations' = mInvocations + 1
    /\ UNCHANGED <<mDbType, pipeline_run_tables, mLoaders, mEnded, mWritten, mLast,
                   mLoads>>

\* _load_table(df, t) with a frame of `rows` rows, in load_all or called on the
\* loader directly: the write, then _record_table_load; a failed write raises,
\* which inside load_all ends the run as failed.
MetaLoadTable ==
    /\ UNCHANGED nonMetaVars
    /\ mLoader.pc # "none"
    /\ mLoads < MaxTableLoads
    /\ mLoads' = mLoads + 1
    /\ \E t \in MetaTables, rows \in RowCounts, ok \in BOOLEAN :
         /\ mLast' = [run_id |-> mLoader.run_id, table_name |-> t, rows |-> rows,
                      ok |-> ok]
         /\ IF ok
            THEN /\ pipeline_run_tables' =
                        RecordTableLoad(pipeline_run_tables, mLoader.run_id, t, rows)
                 /\ mWritten' = mWritten \cup {<<mLoader.run_id, t>>}
                 /\ UNCHANGED <<pipeline_runs, mLoader, mEnded>>
            ELSE /\ UNCHANGED <<pipeline_run_tables, mWritten>>
                 /\ IF mLoader.pc = "running"
                    THEN /\ pipeline_runs' =
                                RecordRunEndOf(pipeline_runs, mLoader.run_id, "failed")
                         /\ mLoader' = [mLoader EXCEPT !.pc = "ended"]
                         /\ mEnded' = mEnded \cup
                                {RunRecord(mLoader.run_id, "failed", TRUE, mLoader.mode)}
                    ELSE UNCHANGED <<pipeline_runs, mLoader, mEnded>>
    /\ UNCHANGED <<mDbType, mLoaders, mInvocations>>

\* Every load of load_all returned: _record_run_end("success").
MetaRunEnd ==
    /\ UNCHANGED nonMetaVars
    /\ mLoader.pc = "running"
    /\ pipeline_runs' = RecordRunEndOf(pipeline_runs, mLoader.run_id, "success")
    /\ mLoader' = [mLoader EXCEPT !.pc = "ended"]
    /\ mEnded' = mEnded \cup {RunRecord(mLoader.run_id, "success", TRUE, mLoader.mode)}
    /\ UNCHANGED <<mDbType, pipeline_run_tables, mLoaders, mInvocations, mWritten,
                   mLast, mLoads>>

MetaNext ==
    \/ ConstructLoader
    \/ MetaRunStart
    \/ MetaLoadTable
    \/ MetaRunEnd

(***************************************************************************)
(* The quality step of run_full_pipeline: it runs the gate on the loaded    *)
(* store and decides on the list the gate returns.                         *)
(***************************************************************************)
EnvValues == {"unset", "true", "1"}

\* skipped_rounds as run_full_pipeline builds it: per entity what the
\* progress file holds under "skipped", here an empty map or not a map.
LoadedSkipped ==
    {[shape |-> "dict", entries |-> {}], [shape |-> "bad", entries |-> {}]}

\* The store and the faults the quality step may meet.
PipelineStore ==
    /\ gRaces \in {S \in SUBSET StoreRaces : Cardinality(S) <= MaxStoreRaces}
    /\ gRowed \in [GatedEntities -> SUBSET gRaces]
    /\ gSkipped \in [GatedEntities -> LoadedSkipped]
    /\ gDeviant \in {"none"} \cup (BatteryNames \ StoreDecided)
    /\ gFault \in {"none"} \cup BatteryNames \cup GuardedChecks
    /\ gDeviant = "none" \/ gFault = "none"
    /\ gFailures = <<>>
    /\ gOutcome = "none"

PipelineInit ==
    /\ envCI \in EnvValues
    /\ envGHA \in EnvValues
    /\ pOutcome = "none"

\* No pipeline run, for the specifications of the other components.
PipelineParked ==
    /\ envCI = "unset"
    /\ envGHA = "unset"
    /\ pOutcome = "none"

\* fail_on_quality, with a variant that looks at CI only.
FailOnQualityCIOnly == envCI = "true"
FailOnQuality == envCI = "true" \/ envGHA = "true"

\* run_full_pipeline from the call of run_quality_checks to the end of the
\* quality step.
QualityStep ==
    /\ UNCHANGED nonPipelineVars
    /\ pOutcome = "none"
    /\ gOutcome # "none"
    /\ pOutcome' = IF gOutcome = "raised" THEN "propagated"
                   ELSE IF gFailures # <<>>
                        THEN IF FailOnQuality THEN "raised" ELSE "warned"
                        ELSE "passed"
    /\ UNCHANGED <<envCI, envGHA>>

PipelineNext ==
    \/ RunQualityChecks
    \/ QualityStep

(***************************************************************************)
(* extract_circuits, extract_constructors, extract_drivers (one list) and   *)
(* extract_races (one list per year): the while loop over offsets.  A row  *)
(* is <<list, position>>; a response is the absence signal of              *)
(* _make_request or the slice of the list at the offset.                   *)
(***************************************************************************)
PagedEntities == {"circuits", "races"}
WholeList == 0

\* The lists an extractor walks: one, or one per year of the range.
PagedLists(e) ==
    IF e = "races" THEN [i \in 1..NumYears |-> StartYear + i - 1]
    ELSE <<WholeList>>

\* The rows the upstream returns for a list of n rows at an offset.
Slice(k, n, offset) ==
    [i \in 1..Min(PageLimit, Max(0, n - offset)) |-> <<k, offset + i>>]

\* if len(rows) < limit: break, with a variant that never breaks there.
ShortPageNever(rows) == FALSE
ShortPage(rows) == Len(rows) < PageLimit

PagerInit ==
    /\ pgEntity \in PagedEntities
    /\ pgUpstream \in [{PagedLists(pgEntity)[i] : i \in 1..Len(PagedLists(pgEntity))}
                          -> 0..MaxUpstream]
    /\ pgIdx = 1
    /\ pgOffset = 0
    /\ pgRows = <<>>
    /\ pgPages = <<>>
    /\ pgpc = "loop"

\* No paginated extraction, for the specifications of the other components.
PagerParked ==
    /\ pgEntity = "circuits"
    /\ pgUpstream = [k \in {WholeList} |-> 0]
    /\ pgIdx = 1
    /\ pgOffset = 0
    /\ pgRows = <<>>
    /\ pgPages = <<>>
    /\ pgpc = "done"

\* One iteration of the while loop: request, the three breaks, offset += limit.
FetchPage ==
    /\ UNCHANGED nonPagerVars
    /\ pgpc = "loop"
    /\ \E absent \in BOOLEAN :
         LET k == PagedLists(pgEntity)[pgIdx]
             rows == IF absent THEN <<>> ELSE Slice(k, pgUpstream[k], pgOffset)
             stop == absent \/ rows = <<>> \/ ShortPage(rows)
         IN  /\ pgPages' = Append(pgPages,
                    [list |-> k, offset |-> pgOffset, absent |-> absent,
                     rows |-> rows])
             /\ pgRows' = pgRows \o rows
             /\ IF ~stop
                THEN /\ pgOffset' = pgOffset + PageLimit
                     /\ UNCHANGED <<pgIdx, pgpc>>
                ELSE IF pgIdx < Len(PagedLists(pgEntity))
                     THEN /\ pgIdx' = pgIdx + 1
                          /\ pgOffset' = 0
                          /\ UNCHANGED pgpc
                     ELSE /\ pgpc' = "done"
                          /\ UNCHANGED <<pgIdx, pgOffset>>
    /\ UNCHANGED <<pgEntity, pgUpstream>>

PagerNext == FetchPage

(***************************************************************************)
(* _get_rounds_by_year and the rounds the year loop of extract_results,     *)
(* extract_qualifying and extract_pit_stops walks.                         *)
(***************************************************************************)
LastGuessedRound == 24

\* The extractors that walk the rounds of each year.
RoundEntities == {"results", "qualifying", "pit_stops"}

\* What races.csv may be: absent, a file pandas cannot read as the races
\* table, or a table with rows of the range and of the year before it.
RacesFiles ==
    {[kind |-> "missing", rows |-> {}], [kind |-> "unreadable", rows |-> {}]}
        \cup {[kind |-> "table", rows |-> S] : S \in SUBSET StoreRaces}

\* _get_rounds_by_year(start_year, end_year): a mapping from the years of
\* the range to their sorted rounds, or the empty mapping.
GetRoundsByYear(f) ==
    IF f.kind = "table"
    THEN [y \in Years |-> Sorted({p[2] : p \in {q \in f.rows : q[1] = y}})]
    ELSE [y \in {} |-> <<>>]

\* rounds = rounds_by_year.get(year) or list(range(1, 25)), with a variant
\* that guesses only when the mapping has no entry for the year.
RoundsForIfAbsent(rounds_by_year, y) ==
    IF y \in DOMAIN rounds_by_year THEN rounds_by_year[y]
    ELSE [i \in 1..LastGuessedRound |-> i]
RoundsFor(rounds_by_year, y) ==
    IF y \in DOMAIN rounds_by_year /\ rounds_by_year[y] # <<>>
    THEN rounds_by_year[y]
    ELSE [i \in 1..LastGuessedRound |-> i]

RoundsInit ==
    /\ rcEntity \in RoundEntities
    /\ rcRaces \in RacesFiles
    /\ rcAttempted = [y \in Years |-> <<>>]
    /\ rcpc = "start"

\* No enumeration, for the specifications of the other components.
RoundsParked ==
    /\ rcEntity = "results"
    /\ rcRaces = [kind |-> "missing", rows |-> {}]
    /\ rcAttempted = [y \in Years |-> <<>>]
    /\ rcpc = "start"

\* The rounds an extraction walks, year by year.
EnumerateRounds ==
    /\ UNCHANGED nonRoundsVars
    /\ rcpc = "start"
    /\ rcAttempted' = [y \in Years |-> RoundsFor(GetRoundsByYear(rcRaces), y)]
    /\ rcpc' = "done"
    /\ UNCHANGED <<rcEntity, rcRaces>>

RoundsNext == EnumerateRounds

(***************************************************************************)
(* The smoke scenario of tests/test_smoke.py: raw files with one row each,  *)
(* transform_all, then load_all with the defaults (full_refresh, strict     *)
(* schema) into a fresh SQLite file, then the referential-integrity and    *)
(* non-negativity checks of the quality gate.  A frame is its column names *)
(* and its rows; a row holds the columns the mappings and the checks read. *)
(***************************************************************************)
\* The missing value of a numeric column (NaN in a frame, NULL in the store).
NaN == -1

\* The header of each raw file, as the test writes it.
RawHeaders(t) ==
    CASE t = "seasons" ->
           {"year", "url"}
      [] t = "circuits" ->
           {"circuit_ref", "circuit_name", "location", "country", "lat",
            "lng", "altitude", "url"}
      [] t = "constructors" ->
           {"constructor_id", "constructor_ref", "constructor_name",
            "nationality", "url"}
      [] t = "drivers" ->
           {"driver_ref", "driver_number", "code", "forename", "surname",
            "dob", "nationality", "url"}
      [] t = "races" ->
           {"race_id", "year", "round", "circuit_ref", "race_name",
            "race_date", "race_time", "url"}
      [] t = "results" ->
           {"race_id", "driver_ref", "constructor_ref", "number", "grid",
            "position", "position_text", "position_order", "points", "laps",
            "time_result", "milliseconds", "fastest_lap", "fastest_lap_rank",
            "fastest_lap_time", "fastest_lap_speed", "status"}
      [] t = "qualifying" ->
           {"race_id", "driver_ref", "constructor_ref", "number", "position",
            "q1", "q2", "q3"}
      [] t = "pit_stops" ->
           {"race_id", "driver_ref", "stop", "lap", "time_of_day",
            "duration", "milliseconds"}
      [] t = "constructor_standings" ->
           {"race_id", "constructor_ref", "points", "position",
            "position_text", "wins"}
      [] t = "driver_standings" ->
           {"race_id", "driver_ref", "points", "position", "position_text",
            "wins"}

\* SCHEMA_CONTRACTS[t]["required"]
Required(t) ==
    CASE t = "seasons" ->
           {"year", "url"}
      [] t = "circuits" ->
           {"circuit_id", "circuit_ref", "circuit_name", "location",
            "country", "lat", "lng", "altitude", "url"}
      [] t = "constructors" ->
           {"constructor_id", "constructor_ref", "constructor_name",
            "nationality", "url"}
      [] t = "drivers" ->
           {"driver_id", "driver_ref", "driver_number", "code", "forename",
            "surname", "dob", "nationality", "url"}
      [] t = "races" ->
           {"race_id", "year", "round", "circuit_id", "race_name",
            "race_date", "race_time", "url"}
      [] t = "results" ->
           {"race_id", "driver_id", "constructor_id", "number", "grid",
            "position", "position_text", "position_order", "points", "laps",
            "time_result", "milliseconds", "fastest_lap", "fastest_lap_rank",
            "fastest_lap_time", "fastest_lap_speed", "status_id", "status"}
      [] t = "qualifying" ->
           {"race_id", "driver_id", "constructor_id", "number", "position",
            "q1", "q2", "q3"}
      [] t = "pit_stops" ->
           {"race_id", "driver_id", "stop", "lap", "time_of_day", "duration",
            "milliseconds"}
      [] t = "constructor_standings" ->
           {"race_id", "constructor_id", "points", "position",
            "position_text", "wins"}
      [] t = "driver_standings" ->
           {"race_id", "driver_id", "points", "position", "position_text",
            "wins"}

\* The columns of table t in the store, taken to be those of its contract.
StoreColumns(t) == Required(t)

\* race_id = int(f"{year}{round:02d}")
RaceId(y, r) == y * 100 + r

SmokePoints == {0, 25}
SmokeGrids == {0, 1}
SmokeDriverIds == {0, 33}
SmokeConstructorIds == {1, 9}

\* The raw files of the scenario: the race p, the constructor id c, the
\* driver_id column of drivers.csv d (0: no such column), points and grid.
RawFiles(p, c, d, pts, grd) ==
    LET id == RaceId(p[1], p[2])
        frame(t, row) ==
            [cols |-> RawHeaders(t), rows |-> <<row>>]
    IN  [t \in Tables |->
          CASE t = "seasons" -> frame(t, [year |-> p[1]])
            [] t = "circuits" -> frame(t, [circuit_ref |-> "silverstone"])
            [] t = "constructors" ->
                 frame(t, [constructor_ref |-> "red_bull", constructor_id |-> c])
            [] t = "drivers" ->
                 IF d = 0
                 THEN frame(t, [driver_ref |-> "max_verstappen"])
                 ELSE [cols |-> RawHeaders(t) \cup {"driver_id"},
                       rows |-> << [driver_ref |-> "max_verstappen",
                                    driver_id |-> d] >>]
            [] t = "races" ->
                 frame(t, [race_id |-> id, year |-> p[1], round |-> p[2],
                           circuit_ref |-> "silverstone"])
            [] t = "results" ->
                 frame(t, [race_id |-> id, driver_ref |-> "max_verstappen",
                           constructor_ref |-> "red_bull", grid |-> grd,
                           position_order |-> 1, points |-> pts, laps |-> 52])
            [] t = "qualifying" ->
                 frame(t, [race_id |-> id, driver_ref |-> "max_verstappen",
                           constructor_ref |-> "red_bull"])
            [] t = "pit_stops" ->
                 frame(t, [race_id |-> id, driver_ref |-> "max_verstappen"])
            [] t = "constructor_standings" ->
                 frame(t, [race_id |-> id, constructor_ref |-> "red_bull"])
            [] t = "driver_standings" ->
                 frame(t, [race_id |-> id, driver_ref |-> "max_verstappen"])]

\* df[col] = range(1, len(df) + 1) when the frame has no such column
WithIds(f, col) ==
    IF col \in f.cols THEN f
    ELSE [cols |-> f.cols \cup {col},
          rows |-> [i \in 1..Len(f.rows) |-> f.rows[i] @@ (col :> i)]]

\* df[id] = df[ref].map(dict(zip(src[ref], src[id]))) inside try/except: the
\* id of the last row of src with that ref, NaN without one, 0 when a column
\* is missing.  MapRefZero is the except branch alone.
MapRefZero(src, ref, id, value) == 0
MapRef(src, ref, id, value) ==
    IF ref \notin src.cols \/ id \notin src.cols THEN 0
    ELSE LET hits == {i \in 1..Len(src.rows) : src.rows[i][ref] = value}
         IN  IF hits = {} THEN NaN
             ELSE src.rows[CHOOSE i \in hits : \A j \in hits : j <= i][id]

\* The frame f with column id added from the ref column through src.
Mapped(f, src, ref, id) ==
    [cols |-> f.cols \cup {id},
     rows |-> [i \in 1..Len(f.rows) |->
                 (id :> (IF ref \in f.cols
                         THEN MapRef(src, ref, id, f.rows[i][ref])
                         ELSE 0)) @@ f.rows[i]]]

\* df[[...]]: the frame with the listed columns only.
Selected(f, cols) ==
    [cols |-> f.cols \cap cols,
     rows |-> [i \in 1..Len(f.rows) |->
                 [c \in (DOMAIN f.rows[i]) \cap cols |-> f.rows[i][c]]]]

\* transform_all: the processed file of every table it writes.
TransformedFiles(raw) ==
    LET drivers == WithIds(raw["drivers"], "driver_id")
        circuits == WithIds(raw["circuits"], "circuit_id")
        constructors == raw["constructors"]
        byDriver(f) == Mapped(f, drivers, "driver_ref", "driver_id")
        byConstructor(f) ==
            Mapped(f, constructors, "constructor_ref", "constructor_id")
        plus(f, cols) == [cols |-> f.cols \cup cols, rows |-> f.rows]
    IN  [t \in Tables \ {"seasons", "constructors"} |->
          CASE t = "circuits" -> Selected(circuits, Required("circuits"))
            [] t = "drivers" ->
                 Selected(plus(drivers, Required("drivers")), Required("drivers"))
            [] t = "races" ->
                 plus(IF "circuit_ref" \in raw[t].cols
                      THEN Mapped(raw[t], circuits, "circuit_ref", "circuit_id")
                      ELSE raw[t],
                      {"race_time", "race_id"})
            [] t = "results" ->
                 plus(byConstructor(byDriver(raw[t])),
                      {"milliseconds", "status_id", "position_order"})
            [] t = "qualifying" ->
                 plus(byConstructor(byDriver(raw[t])), {"q1", "q2", "q3"})
            [] t = "pit_stops" ->
                 plus(byDriver(raw[t]), {"time_of_day", "milliseconds"})
            [] t = "constructor_standings" -> byConstructor(raw[t])
            [] t = "driver_standings" -> byDriver(raw[t])]

\* The frame load_<t> hands to _load_table.
LoadFrame(t) ==
    IF t \in {"seasons", "constructors"} THEN smRaw[t]
    ELSE IF t \in {"circuits", "drivers"} THEN smClean[t]
    ELSE Selected(smClean[t], Required(t))

SmokeInit ==
    /\ smRaw \in {RawFiles(p, c, d, pts, grd) :
                    p \in Unit, c \in SmokeConstructorIds, d \in SmokeDriverIds,
                    pts \in SmokePoints, grd \in SmokeGrids}
    /\ smClean = [t \in {} |-> <<>>]
    /\ smStore = [t \in Tables |-> <<>>]
    /\ smpc = "raw"
    /\ smIdx = 1
    /\ smStatus = "none"
    /\ smFailures = {}

\* No scenario, for the specifications of the other components.
SmokeParked ==
    /\ smRaw = [t \in {} |-> <<>>]
    /\ smClean = [t \in {} |-> <<>>]
    /\ smStore = [t \in Tables |-> <<>>]
    /\ smpc = "idle"
    /\ smIdx = 1
    /\ smStatus = "none"
    /\ smFailures = {}

\* transformer.transform_all()
TransformAll ==
    /\ UNCHANGED nonSmokeVars
    /\ smpc = "raw"
    /\ smClean' = TransformedFiles(smRaw)
    /\ smpc' = "start"
    /\ UNCHANGED <<smRaw, smStore, smIdx, smStatus, smFailures>>

\* load_all up to the first load: _record_run_start
SmokeRunStart ==
    /\ UNCHANGED nonSmokeVars
    /\ smpc = "start"
    /\ smStatus' = "running"
    /\ smpc' = "load"
    /\ UNCHANGED <<smRaw, smClean, smStore, smIdx, smFailures>>

\* The next load_<t> of load_all: _load_table skips a frame without rows,
\* raises on a contract issue (strict schema; after _coerce_df only a missing
\* required column is one), and otherwise deletes the rows of the table and
\* appends the frame, which the store refuses for a column it does not have.
\* After the last load, or at the first raise, _record_run_end.
SmokeLoad ==
    /\ UNCHANGED nonSmokeVars
    /\ smpc = "load"
    /\ LET t == LoadOrder[smIdx]
           df == LoadFrame(t)
           raises == /\ df.rows # <<>>
                     /\ \/ Required(t) \ df.cols # {}
                        \/ df.cols \ StoreColumns(t) # {}
       IN  /\ smStore' = IF df.rows = <<>> \/ raises THEN smStore
                         ELSE [smStore EXCEPT ![t] = df.rows]
           /\ IF raises
              THEN /\ smStatus' = "failed"
                   /\ smpc' = "end"
                   /\ UNCHANGED smIdx
              ELSE IF smIdx < Len(LoadOrder)
                   THEN /\ smIdx' = smIdx + 1
                        /\ UNCHANGED <<smStatus, smpc>>
                   ELSE /\ smStatus' = "success"
                        /\ smpc' = "gate"
                        /\ UNCHANGED smIdx
    /\ UNCHANGED <<smRaw, smClean, smFailures>>

\* The rows of table t whose column col has no match in column col of table u.
Orphans(t, u, col) ==
    {i \in 1..Len(smStore[t]) :
        ~\E j \in 1..Len(smStore[u]) :
            /\ smStore[t][i][col] # NaN
            /\ smStore[u][j][col] = smStore[t][i][col]}

\* The rows of results with a negative value in column col.
Negatives(col) ==
    {i \in 1..Len(smStore["results"]) :
        /\ smStore["results"][i][col] # NaN
        /\ smStore["results"][i][col] < 0}

IntegrityChecks ==
    {"results_race_fk", "results_driver_fk", "results_constructor_fk",
     "qualifying_race_fk", "pit_stops_race_fk"}

NonNegativeChecks ==
    {"results_points_non_negative", "results_laps_non_negative",
     "results_grid_non_negative", "results_position_order_non_negative"}

\* The count the query of a referential-integrity or non-negativity check
\* returns on the store.
SmokeValue(check) ==
    Cardinality(
      CASE check = "results_race_fk" -> Orphans("results", "races", "race_id")
        [] check = "results_driver_fk" ->
             Orphans("results", "drivers", "driver_id")
        [] check = "results_constructor_fk" ->
             Orphans("results", "constructors", "constructor_id")
        [] check = "qualifying_race_fk" ->
             Orphans("qualifying", "races", "race_id")
        [] check = "pit_stops_race_fk" ->
             Orphans("pit_stops", "races", "race_id")
        [] check = "results_points_non_negative" -> Negatives("points")
        [] check = "results_laps_non_negative" -> Negatives("laps")
        [] check = "results_grid_non_negative" -> Negatives("grid")
        [] check = "results_position_order_non_negative" ->
             Negatives("position_order"))

\* run_quality_checks on the loaded store, for these checks: each expects 0.
SmokeGate ==
    /\ UNCHANGED nonSmokeVars
    /\ smpc = "gate"
    /\ smFailures' = {k \in IntegrityChecks \cup NonNegativeChecks :
                         SmokeValue(k) # 0}
    /\ smpc' = "end"
    /\ UNCHANGED <<smRaw, smClean, smStore, smIdx, smStatus>>

SmokeNext ==
    \/ TransformAll
    \/ SmokeRunStart
    \/ SmokeLoad
    \/ SmokeGate

(***************************************************************************)
(* _save_progress and the years of the file it writes.  A mapping is a      *)
(* function from the year keys it holds to sets of rounds; the keys may lie *)
(* outside the range of the call.                                          *)
(***************************************************************************)
KeyYears == (StartYear - 1)..(EndYear + 1)

\* The mappings over any keys, each key with no round or with round 1.
YearMaps == UNION {[K -> {{}, {1}}] : K \in SUBSET KeyYears}

\* The same with a round under every key.
SkippedYearMaps == UNION {[K -> {{1}}] : K \in SUBSET KeyYears}

YearRanges ==
    {<<StartYear, EndYear>>, <<StartYear, StartYear>>, <<EndYear, EndYear + 1>>}

NoProgressFile == [exists |-> FALSE, years |-> <<>>, skipped |-> <<>>]

\* for year in range(start_year, end_year + 1): data.get(str(year), []),
\* with a variant that keeps every key of the data.
ScopedKeepingAll(map, s, e) ==
    [y \in (s..e) \cup DOMAIN map |-> IF y \in DOMAIN map THEN map[y] ELSE {}]
Scoped(map, s, e) ==
    [y \in s..e |-> IF y \in DOMAIN map THEN map[y] ELSE {}]

\* _normalize_progress(data, start_year, end_year), on mappings of integers.
NormalizeScoped(data, s, e) ==
    [years |-> Scoped(data.years, s, e), skipped |-> Scoped(data.skipped, s, e)]

ScopeInit ==
    /\ scData \in [years : YearMaps, skipped : SkippedYearMaps]
    /\ scRange \in YearRanges
    /\ scFile \in {NoProgressFile,
                   [exists |-> TRUE,
                    years |-> [y \in {StartYear - 1, StartYear} |-> {1}],
                    skipped |-> [y \in {StartYear - 1, StartYear} |-> {}]]}
    /\ scBefore = scFile
    /\ scpc = "start"

\* No save, for the specifications of the other components.
ScopeParked ==
    /\ scData = [years |-> <<>>, skipped |-> <<>>]
    /\ scRange = <<StartYear, EndYear>>
    /\ scFile = NoProgressFile
    /\ scBefore = NoProgressFile
    /\ scpc = "start"

\* _save_progress(filename, data, start_year, end_year)
SaveScoped ==
    /\ UNCHANGED nonScopeVars
    /\ scpc = "start"
    /\ LET normalized == NormalizeScoped(scData, scRange[1], scRange[2])
       IN  scFile' = [exists |-> TRUE, years |-> normalized.years,
                      skipped |-> normalized.skipped]
    /\ scpc' = "saved"
    /\ UNCHANGED <<scData, scRange, scBefore>>

ScopeNext == SaveScoped

(***************************************************************************)
(* The units of one year of extract_pit_stops: for each round the while    *)
(* loop over its pages and the status it is recorded with.  A response is  *)
(* the absence signal, a document with an empty race table, or one with    *)
(* the race and a total, which _get_total reads as 0 when it is missing or *)
(* no integer.                                                             *)
(***************************************************************************)
\* The total a response reports, as _get_total reads it: the number of pit
\* stops of the race, or 0.
ReportedTotals(n) == {n, 0}

\* The race table of a response at an offset: the race while pit stops are
\* left at the offset, empty otherwise.
PageKind(n, offset) == IF offset < n THEN "rows" ELSE "empty"

\* if total == 0 or offset >= total: break, for the offset after the page
StopsAfter(total, offset) == total = 0 \/ offset >= total

\* if saw_data: done, else skipped; with a variant that goes by the last page.
UnitStatusByLastPage(saw, pages) ==
    IF pages[Len(pages)].kind = "rows" THEN "done" ELSE "skipped"
UnitStatus(saw, pages) == IF saw THEN "done" ELSE "skipped"

PitInit ==
    /\ ppStops \in [Rounds -> 0..MaxPitStops]
    /\ ppRound = 1
    /\ ppOffset = 0
    /\ ppSaw = FALSE
    /\ ppPages = [r \in Rounds |-> <<>>]
    /\ ppStatus = [r \in Rounds |-> "none"]
    /\ pppc = "loop"

\* No pit-stop extraction, for the specifications of the other components.
PitParked ==
    /\ ppStops = [r \in Rounds |-> 0]
    /\ ppRound = 1
    /\ ppOffset = 0
    /\ ppSaw = FALSE
    /\ ppPages = [r \in Rounds |-> <<>>]
    /\ ppStatus = [r \in Rounds |-> "none"]
    /\ pppc = "idle"

\* One iteration of the while loop; on a break the unit is recorded, the
\* progress saved, and the loop over the rounds goes on.
FetchPitPage ==
    /\ UNCHANGED nonPitVars
    /\ pppc = "loop"
    /\ \E absent \in BOOLEAN, total \in ReportedTotals(ppStops[ppRound]) :
         LET kind == IF absent THEN "absent"
                     ELSE PageKind(ppStops[ppRound], ppOffset)
             page == [offset |-> ppOffset, kind |-> kind,
                      total |-> IF kind = "rows" THEN total ELSE 0]
             pages == Append(ppPages[ppRound], page)
             saw == ppSaw \/ kind = "rows"
             stop == kind # "rows" \/ StopsAfter(total, ppOffset + PitLimit)
         IN  /\ ppPages' = [ppPages EXCEPT ![ppRound] = pages]
             /\ IF stop
                THEN /\ ppStatus' = [ppStatus EXCEPT
                                       ![ppRound] = UnitStatus(saw, pages)]
                     /\ ppOffset' = 0
                     /\ ppSaw' = FALSE
                     /\ IF ppRound < MaxRound
                        THEN /\ ppRound' = ppRound + 1
                             /\ UNCHANGED pppc
                        ELSE /\ pppc' = "returned"
                             /\ UNCHANGED ppRound
                ELSE /\ ppOffset' = ppOffset + PitLimit
                     /\ ppSaw' = saw
                     /\ UNCHANGED <<ppStatus, ppRound, pppc>>
    /\ UNCHANGED ppStops

PitNext == FetchPitPage

(***************************************************************************)
(* Specifications, one per component.                                      *)
(***************************************************************************)
InitExtract ==
    /\ ExtractInit
    /\ ClientParked
    /\ WriterParked
    /\ LoaderParked
    /\ GateParked
    /\ SaverParked
    /\ RunParked
    /\ NormParked
    /\ MetaParked
    /\ PipelineParked
    /\ PagerParked
    /\ RoundsParked
    /\ SmokeParked
    /\ ScopeParked
    /\ PitParked

SpecExtract == InitExtract /\ [][ExtractNext]_vars

InitExtractAny ==
    /\ ExtractAnyInit
    /\ ClientParked
    /\ WriterParked
    /\ LoaderParked
    /\ GateParked
    /\ SaverParked
    /\ RunParked
    /\ NormParked
    /\ MetaParked
    /\ PipelineParked
    /\ PagerParked
    /\ RoundsParked
    /\ SmokeParked
    /\ ScopeParked
    /\ PitParked

SpecExtractAny == InitExtractAny /\ [][ExtractNext]_vars

InitClient ==
    /\ ClientInit
    /\ ExtractParked
    /\ WriterParked
    /\ LoaderParked
    /\ GateParked
    /\ SaverParked
    /\ RunParked
    /\ NormParked
    /\ MetaParked
    /\ PipelineParked
    /\ PagerParked
    /\ RoundsParked
    /\ SmokeParked
    /\ ScopeParked
    /\ PitParked

SpecClient == InitClient /\ [][ClientNext]_vars

\* Every request is answered or fails: session.get carries a timeout, and the
\* sleeps of _rate_limit and _backoff are finite.
SpecClientLive ==
    /\ InitClient
    /\ [][ClientNext]_vars
    /\ WF_vars(RateLimited \/ NotFound \/ RequestFailed \/ Succeeded)

InitPacing ==
    /\ PacingInit
    /\ ExtractParked
    /\ WriterParked
    /\ LoaderParked
    /\ GateParked
    /\ SaverParked
    /\ RunParked
    /\ NormParked
    /\ MetaParked
    /\ PipelineParked
    /\ PagerParked
    /\ RoundsParked
    /\ SmokeParked
    /\ ScopeParked
    /\ PitParked

SpecPacing == InitPacing /\ [][ClientNext]_vars

InitWriter ==
    /\ WriterInit
    /\ ExtractParked
    /\ ClientParked
    /\ LoaderParked
    /\ GateParked
    /\ SaverParked
    /\ RunParked
    /\ NormParked
    /\ MetaParked
    /\ PipelineParked
    /\ PagerParked
    /\ RoundsParked
    /\ SmokeParked
    /\ ScopeParked
    /\ PitParked

SpecWriter == InitWriter /\ [][WriterNext]_vars

InitLoader ==
    /\ LoaderInit
    /\ ExtractParked
    /\ ClientParked
    /\ WriterParked
    /\ GateParked
    /\ SaverParked
    /\ RunParked
    /\ NormParked
    /\ MetaParked
    /\ PipelineParked
    /\ PagerParked
    /\ RoundsParked
    /\ SmokeParked
    /\ ScopeParked
    /\ PitParked

SpecLoader == InitLoader /\ [][LoaderNext]_vars

InitGate ==
    /\ GateInit
    /\ ExtractParked
    /\ ClientParked
    /\ WriterParked
    /\ LoaderParked
    /\ SaverParked
    /\ RunParked
    /\ NormParked
    /\ MetaParked
    /\ PipelineParked
    /\ PagerParked
    /\ RoundsParked
    /\ SmokeParked
    /\ ScopeParked
    /\ PitParked

SpecGate == InitGate /\ [][GateNext]_vars

InitSaver ==
    /\ SaverInit
    /\ ClientParked
    /\ ExtractParked
    /\ WriterParked
    /\ LoaderParked
    /\ GateParked
    /\ RunParked
    /\ NormParked
    /\ MetaParked
    /\ PipelineParked
    /\ PagerParked
    /\ RoundsParked
    /\ SmokeParked
    /\ ScopeParked
    /\ PitParked

SpecSaver == InitSaver /\ [][SaverNext]_vars

InitRun ==
    /\ RunInit
    /\ ClientParked
    /\ ExtractParked
    /\ WriterParked
    /\ LoaderParked
    /\ GateParked
    /\ SaverParked
    /\ NormParked
    /\ MetaParked
    /\ PipelineParked
    /\ PagerParked
    /\ RoundsParked
    /\ SmokeParked
    /\ ScopeParked
    /\ PitParked

SpecRun == InitRun /\ [][RunNext]_vars

InitNorm ==
    /\ NormInit
    /\ ClientParked
    /\ ExtractParked
    /\ WriterParked
    /\ LoaderParked
    /\ GateParked
    /\ SaverParked
    /\ RunParked
    /\ MetaParked
    /\ PipelineParked
    /\ PagerParked
    /\ RoundsParked
    /\ SmokeParked
    /\ ScopeParked
    /\ PitParked

SpecNorm == InitNorm /\ [][NormNext]_vars

InitMeta ==
    /\ MetaInit
    /\ ClientParked
    /\ ExtractParked
    /\ WriterParked
    /\ LoaderParked
    /\ GateParked
    /\ SaverParked
    /\ RunParked
    /\ NormParked
    /\ PipelineParked
    /\ PagerParked
    /\ RoundsParked
    /\ SmokeParked
    /\ ScopeParked
    /\ PitParked

SpecMeta == InitMeta /\ [][MetaNext]_vars

InitPipeline ==
    /\ PipelineInit
    /\ PipelineStore
    /\ ClientParked
    /\ ExtractParked
    /\ WriterParked
    /\ LoaderParked
    /\ SaverParked
    /\ RunParked
    /\ NormParked
    /\ MetaParked
    /\ PagerParked
    /\ RoundsParked
    /\ SmokeParked
    /\ ScopeParked
    /\ PitParked

SpecPipeline == InitPipeline /\ [][PipelineNext]_vars

InitPager ==
    /\ PagerInit
    /\ ClientParked
    /\ ExtractParked
    /\ WriterParked
    /\ LoaderParked
    /\ GateParked
    /\ SaverParked
    /\ RunParked
    /\ NormParked
    /\ MetaParked
    /\ PipelineParked
    /\ RoundsParked
    /\ SmokeParked
    /\ ScopeParked
    /\ PitParked

SpecPager == InitPager /\ [][PagerNext]_vars

InitRounds ==
    /\ RoundsInit
    /\ ClientParked
    /\ ExtractParked
    /\ WriterParked
    /\ LoaderParked
    /\ GateParked
    /\ SaverParked
    /\ RunParked
    /\ NormParked
    /\ MetaParked
    /\ PipelineParked
    /\ PagerParked
    /\ SmokeParked
    /\ ScopeParked
    /\ PitParked

SpecRounds == InitRounds /\ [][RoundsNext]_vars

InitSmoke ==
    /\ SmokeInit
    /\ ClientParked
    /\ ExtractParked
    /\ WriterParked
    /\ LoaderParked
    /\ GateParked
    /\ SaverParked
    /\ RunParked
    /\ NormParked
    /\ MetaParked
    /\ PipelineParked
    /\ PagerParked
    /\ RoundsParked
    /\ ScopeParked
    /\ PitParked

SpecSmoke == InitSmoke /\ [][SmokeNext]_vars

InitScope ==
    /\ ScopeInit
    /\ ClientParked
    /\ ExtractParked
    /\ WriterParked
    /\ LoaderParked
    /\ GateParked
    /\ SaverParked
    /\ RunParked
    /\ NormParked
    /\ MetaParked
    /\ PipelineParked
    /\ PagerParked
    /\ RoundsParked
    /\ SmokeParked
    /\ PitParked

SpecScope == InitScope /\ [][ScopeNext]_vars

InitPit ==
    /\ PitInit
    /\ ClientParked
    /\ ExtractParked
    /\ WriterParked
    /\ LoaderParked
    /\ GateParked
    /\ SaverParked
    /\ RunParked
    /\ NormParked
    /\ MetaParked
    /\ PipelineParked
    /\ PagerParked
    /\ RoundsParked
    /\ SmokeParked
    /\ ScopeParked

SpecPit == InitPit /\ [][PitNext]_vars

(***************************************************************************)
(* Claims about the (year, round) extraction.                              *)
(***************************************************************************)
Running == pc \in {"year", "round", "write", "replace"}

\* C1: when a run that follows a killed run has completed, the output file holds
\* the rows of every unit the progress file records as done, and the run fetched
\* no unit that the progress file recorded when the kill happened (only the unit
\* in flight at the kill is fetched again).
C1_CrashResume ==
    (pc = "done" /\ prevEnded = "killed") =>
        /\ RecordedDone(progressFile) \subseteq outFile.units
        /\ fetched \cap Recorded(startProgress) = {}

\* C2: a run that follows a completed run, with no fetch ever given up on, leaves
\* the output file as the first run left it.
C2_Idempotent ==
    (pc = "done" /\ prevEnded = "completed" /\ ~transient) => outFile = startOut

\* The run started on an output that is missing, under 10 bytes, or without a
\* data row after the header.
StartedUnhealthy ==
    \/ ~startOut.exists
    \/ FileSize(entity, upstream, startOut) < EmptyThreshold
    \/ DataRows(upstream, startOut) = 0

\* C3: a run that starts on a missing, under-10-byte or row-less output passes
\* over no unit because of the progress it loaded, and has fetched every unit by
\* the time it writes the output.
C3_Resumability ==
    ((Running \/ pc = "done") /\ StartedUnhealthy) =>
        /\ passedOver = {}
        /\ (pc \in {"write", "replace", "done"} => fetched = Unit)

\* C3 witness: a completed run that started with units recorded in the progress
\* file and an output file that exists but has no data row, and fetched them all.
C3_Witness ==
    /\ pc = "done"
    /\ startOut.exists
    /\ DataRows(upstream, startOut) = 0
    /\ Recorded(startProgress) # {}
    /\ Recorded(startProgress) \subseteq fetched

Disjoint(pfile) == \A y \in Years : pfile.years[y] \cap pfile.skipped[y] = {}

\* C4: once a run has saved the progress (it has fetched a unit), no round is in
\* both the done list and the skipped list of a year of the progress file.
C4_ProgressDisjoint ==
    (fetched # {}) => Disjoint(progressFile)

\* C14: a unit is in the persisted skipped set only if the upstream has no
\* data for it; a unit whose fetch gave up after its retries is not recorded as
\* skipped (so that the next run fetches it again).
C14_SkipOnlyConfirmed ==
    progressFile.exists =>
        \A u \in Unit : u[2] \in progressFile.skipped[u[1]] => upstream[u] = 0

\* C22: when the fetch of a unit has been made, the step that decides its outcome
\* leaves the saved progress file with the unit in exactly one of done and
\* skipped: in done when the fetch gave rows, in skipped when it gave None or no
\* race; so the file is saved before the fetch of the next unit starts.
C22_UnitPersisted(u) ==
    /\ progressFile'.exists
    /\ (u[2] \in progressFile'.years[u[1]]) # (u[2] \in progressFile'.skipped[u[1]])
    /\ (u[2] \in progressFile'.years[u[1]]) <=> (u \in all_rows')
    /\ progressFile' = SaveProgress(progress')

C22_ProgressPerUnit ==
    [][\A u \in fetched' \ fetched : C22_UnitPersisted(u)]_vars

\* In one run of extract_pit_stops a unit with rows was recorded as done and the
\* unit after it, which gave no race, as skipped; the next unit is yet to come.
C22_Witness ==
    /\ entity = "pit_stops"
    /\ pc = "round"
    /\ roundsLeft # <<>>
    /\ \E u, v \in fetched :
         /\ u \in all_rows
         /\ u[2] \in progressFile.years[u[1]]
         /\ upstream[v] = 0
         /\ v[2] \in progressFile.skipped[v[1]]

\* The units a progress file records as skipped.
RecordedSkipped(p) == {u \in Unit : u[2] \in p.skipped[u[1]]}

\* C23: in a run whose output file passed the health check, no unit that the
\* progress file held as done or as skipped when the run began is fetched, and
\* such a unit stays in the set it was in and enters no other.
C23_RecordedUnitsTerminal ==
    ((Running \/ pc = "done") /\ ~RebuildNeeded(entity, upstream, startOut)) =>
        /\ fetched \cap Recorded(startProgress) = {}
        /\ RecordedDone(startProgress) \subseteq RecordedDone(progressFile)
        /\ RecordedSkipped(startProgress) \subseteq RecordedSkipped(progressFile)
        /\ RecordedDone(progressFile) \cap Recorded(startProgress)
               = RecordedDone(startProgress)
        /\ RecordedSkipped(progressFile) \cap Recorded(startProgress)
               = RecordedSkipped(startProgress)

\* A completed run on a healthy output passed over a done unit and a skipped
\* unit of its progress file, and fetched the units the file did not hold.
C23_Witness ==
    /\ pc = "done"
    /\ ~RebuildNeeded(entity, upstream, startOut)
    /\ RecordedDone(startProgress) \ RecordedSkipped(startProgress) # {}
    /\ RecordedSkipped(startProgress) \ RecordedDone(startProgress) # {}
    /\ passedOver = Recorded(startProgress)
    /\ fetched = Unit \ Recorded(startProgress)
    /\ fetched # {}

\* C37: when an extractor has returned normally, the progress file records
\* every unit of every year of the range as done or skipped.
C37_ProgressComplete ==
    pc = "done" => Recorded(progressFile) = Unit

\* The run of extract_results or extract_qualifying began on an output file
\* that has data rows, but fewer than 10 for each unit in range.
StartedTruncated ==
    /\ entity \in {"results", "qualifying"}
    /\ startOut.exists
    /\ DataRows(upstream, startOut) > 0
    /\ DataRows(upstream, startOut) < 10 * Cardinality(Unit)

\* C24: a run of extract_results or extract_qualifying that begins on such an
\* output file discards the progress it loaded: it passes over no unit, and has
\* fetched every unit in range by the time it writes the output.
C24_TruncationHeuristic ==
    ((Running \/ pc = "done") /\ StartedTruncated) =>
        /\ passedOver = {}
        /\ (pc \in {"write", "replace", "done"} => fetched = Unit)

\* A completed run of extract_qualifying fetched every unit again when the
\* output held the rows of one race and the progress recorded units as done.
C24_Witness ==
    /\ pc = "done"
    /\ entity = "qualifying"
    /\ StartedTruncated
    /\ RecordedDone(startProgress) # {}
    /\ RecordedDone(startProgress) \subseteq fetched
    /\ fetched = Unit

(***************************************************************************)
(* Claims about the fetch client.                                          *)
(***************************************************************************)
\* C5 as stated: after every 429 without a Retry-After header base_delay is at
\* least what it was before the response and at most max_base_delay, whatever
\* base_delay and max_base_delay were configured.
C5_MonotonicAnyConfig ==
    (lastResp = "429") =>
        /\ base_delay >= prev_base
        /\ base_delay <= max_base_delay

\* C5 amended: when base_delay is configured no larger than max_base_delay, after
\* every 429 without a Retry-After header base_delay is at least what it was before
\* the response and at most max_base_delay.
C5_MonotonicBoundedBackoff ==
    (lastResp = "429" /\ init_base <= max_base_delay) =>
        /\ base_delay >= prev_base
        /\ base_delay <= max_base_delay

\* C5 witness: a third consecutive 429 without a header has raised base_delay
\* (drift and escalation) and left it under the cap.
C5_Witness ==
    /\ lastResp = "429"
    /\ init_base <= max_base_delay
    /\ consecutive_rate_limits >= RateLimitThreshold
    /\ prev_base < base_delay
    /\ base_delay < max_base_delay

C6_FullRefreshCorrect ==
    (mode = "full_refresh" /\ lOutcome \in {"loaded", "skipped"})
        => tbl = FrameRows(lDf)

\* The last row of the frame that carries key k.
LastWithKey(df, k) ==
    df[CHOOSE i \in 1..Len(df) :
          /\ df[i][1] = k
          /\ \A j \in 1..Len(df) : df[j][1] = k => j <= i]

\* C7: after a load in incremental mode has loaded a frame, the table holds
\* exactly one row for every key of the frame, with the values the frame
\* gives, and every row whose key is not in the frame is as it was.
C7_UpsertCorrect ==
    (mode = "incremental" /\ lOutcome = "loaded") =>
        \A k \in Keys :
            IF \E i \in 1..Len(lDf) : lDf[i][1] = k
            THEN {r \in tbl : r[1] = k} = {LastWithKey(lDf, k)}
            ELSE {r \in tbl : r[1] = k} = {r \in lBefore : r[1] = k}

\* An incremental load that replaced the values of one key and left another
\* row alone.
C7_Witness ==
    /\ mode = "incremental"
    /\ lOutcome = "loaded"
    /\ \E r \in lBefore : \E i \in 1..Len(lDf) :
         lDf[i][1] = r[1] /\ lDf[i][2] # r[2]
    /\ \E r \in lBefore : \A i \in 1..Len(lDf) : lDf[i][1] # r[1]

\* C8: after an incremental load has returned or raised, the store has no
\* staging table for the table, and if the load raised the table is as it was.
C8_UpsertAllOrNothing ==
    (mode = "incremental" /\ lOutcome # "none") =>
        /\ ~stg.exists
        /\ lOutcome \in {"raised", "schema_error"} => tbl = lBefore

(***************************************************************************)
(* Claims about load_all.                                                  *)
(***************************************************************************)
\* The load of some table of this run raised.
SomeLoadRaised ==
    \E i \in 1..Len(laAttempted) :
        LET k == laFiles[laAttempted[i]]
        IN  \/ k = "unwritable"
            \/ k = "bad_schema" /\ laStrict
            \/ k = "missing" /\ laAttempted[i] \notin ChecksPath
            \/ k = "nocolumns"
                 /\ laAttempted[i] \notin (CatchEmptyData \cup ChecksPath)

\* C12: the run record is 'running' from before the first table load until
\* load_all ends; its status changes exactly once, to 'success' if no table
\* load raised and to 'failed' if one did; it is not 'running' once load_all
\* has returned or raised.
C12_RunRecordLifecycle ==
    /\ (laAttempted # <<>> /\ laOutcome = "none") => runStatus = "running"
    /\ statusChanges <= 1
    /\ laOutcome # "none" =>
         /\ statusChanges = 1
         /\ runStatus = IF SomeLoadRaised THEN "failed" ELSE "success"
    /\ (laOutcome = "returned") = (lapc = LoadAllDone /\ ~SomeLoadRaised)

\* A run whose sixth table failed to load, after five were written.
C12_Witness ==
    /\ laOutcome = "raised"
    /\ runStatus = "failed"
    /\ Len(laWritten) = 5
    /\ Len(laAttempted) = 6

\* C13: when the load of a table raises on a write error or, under strict
\* mode, on a schema violation, load_all has raised with the run record
\* 'failed' and no table later in the load order has been loaded.
C13_LoadFailurePropagation ==
    \A i \in 1..Len(laAttempted) :
        LET k == laFiles[laAttempted[i]]
        IN  (k = "unwritable" \/ (k = "bad_schema" /\ laStrict)) =>
                /\ laOutcome = "raised"
                /\ runStatus = "failed"
                /\ i = Len(laAttempted)
                /\ \A j \in 1..Len(laWritten) :
                     \E n \in 1..(i - 1) : laAttempted[n] = laWritten[j]
                /\ laAttempted = SubSeq(LoadOrder, 1, i)

\* Under strict mode the load of races raised on a schema violation, with the
\* four tables before it written and none after it.
C13_Witness ==
    /\ laStrict
    /\ laFiles["races"] = "bad_schema"
    /\ laOutcome = "raised"
    /\ runStatus = "failed"
    /\ laWritten = SubSeq(LoadOrder, 1, 4)

\* Table a was loaded before table b, if b was loaded at all.
LoadedBefore(a, b) ==
    \A j \in DOMAIN laAttempted :
        laAttempted[j] = b => \E i \in 1..(j - 1) : laAttempted[i] = a

\* C28: in a load_all run no table is loaded twice; circuits, constructors and
\* drivers are loaded before races, and races before results, qualifying,
\* pit_stops and the two standings tables; the tables written follow the same
\* order.
C28_DependencyOrder ==
    /\ \A i, j \in DOMAIN laAttempted : laAttempted[i] = laAttempted[j] => i = j
    /\ \A parent \in {"circuits", "constructors", "drivers"} :
           LoadedBefore(parent, "races")
    /\ \A child \in {"results", "qualifying", "pit_stops",
                     "constructor_standings", "driver_standings"} :
           LoadedBefore("races", child)
    /\ \A i, j \in DOMAIN laWritten :
           i < j => \E k, l \in DOMAIN laAttempted :
                        /\ k < l
                        /\ laAttempted[k] = laWritten[i]
                        /\ laAttempted[l] = laWritten[j]

\* A run that loaded all ten tables and returned.
C28_Witness ==
    /\ laOutcome = "returned"
    /\ Len(laAttempted) = 10
    /\ "races" \in {laWritten[i] : i \in DOMAIN laWritten}
    /\ "driver_standings" \in {laWritten[i] : i \in DOMAIN laWritten}

\* The run-table records of a (run_id, table_name) pair.
RecordsOf(id, t) ==
    {r \in pipeline_run_tables : r.run_id = id /\ r.table_name = t}

\* C29: the store holds at most one run-table record for a (run_id, table_name)
\* pair; a pair recorded again has its rows_loaded overwritten with the latest
\* row count; and a record exists only for a pair whose table write succeeded.
C29_RunTableIdempotence ==
    /\ \A r1, r2 \in pipeline_run_tables :
           (r1.run_id = r2.run_id /\ r1.table_name = r2.table_name) => r1 = r2
    /\ mLast.ok =>
           RecordsOf(mLast.run_id, mLast.table_name) \in
               {{}, {TableRecord(mLast.run_id, mLast.table_name, mLast.rows)}}
    /\ (mLast.ok /\ mLast.run_id = mLoader.run_id) =>
           RecordsOf(mLast.run_id, mLast.table_name) # {}
    /\ \A r \in pipeline_run_tables : <<r.run_id, r.table_name>> \in mWritten

\* One loader loaded races three times, the last time with another row count:
\* its one record holds the last count.
C29_Witness ==
    /\ mLoads = 3
    /\ mLast.ok
    /\ mLast.rows = 2
    /\ pipeline_run_tables = {TableRecord(mLoader.run_id, "races", 2)}
    /\ mWritten = {<<mLoader.run_id, "races">>}

\* C30: after N load_all calls on the store there are N run records, and a run
\* record that has ended is in the store as it was when it ended, whatever
\* loaders were constructed and run afterwards.
C30_RunRecordsKept ==
    /\ Cardinality(pipeline_runs) = mInvocations
    /\ mEnded \subseteq pipeline_runs

(***************************************************************************)
(* Claims about the quality gate.                                          *)
(***************************************************************************)
\* The race <<year, round>> p is in the skipped map of entity e.
IsSkipped(e, p) ==
    \E x \in gSkipped[e].entries :
        x.y.ok /\ x.r.ok /\ x.y.v = p[1] /\ x.r.v = p[2]

\* The races of the range that lack rows of e and are not skipped for e.
Lacking(e) ==
    {p \in gRaces : p[1] \in Years /\ p \notin gRowed[e] /\ ~IsSkipped(e, p)}

\* C9 (as stated): a missing-rows failure is reported only when some
\* non-skipped race of the range lacks rows, and it counts those races only.
C9_SkipExclusionOnly ==
    gOutcome = "returned" =>
        \A e \in GatedEntities : \A i \in 1..Len(gFailures) :
            gFailures[i].check = "races_missing_" \o e =>
                /\ Lacking(e) # {}
                /\ gFailures[i].expected = "0"
                /\ gFailures[i].value = Cardinality(Lacking(e))

\* C9 (amended): a missing-rows failure either reports that the check itself
\* could not be evaluated, or is reported only when some non-skipped race of
\* the range lacks rows, and then it counts those races only.
C9_SkipExclusion ==
    gOutcome = "returned" =>
        \A e \in GatedEntities : \A i \in 1..Len(gFailures) :
            gFailures[i].check = "races_missing_" \o e =>
                \/ gFailures[i].expected = "query_success"
                \/ /\ Lacking(e) # {}
                   /\ gFailures[i].expected = "0"
                   /\ gFailures[i].value = Cardinality(Lacking(e))

\* The gate returned with one race lacking results and skipped, another
\* lacking results and not skipped, and reported exactly the latter.
C9_Witness ==
    /\ gOutcome = "returned"
    /\ \E p \in gRaces :
         p[1] \in Years /\ p \notin gRowed["results"] /\ IsSkipped("results", p)
    /\ \E i \in 1..Len(gFailures) :
         /\ gFailures[i].check = "races_missing_results"
         /\ gFailures[i].expected = "0"
         /\ gFailures[i].value = 1

\* The years of the range without a race row in the store.
YearsWithoutRace == {y \in Years : ~\E p \in gRaces : p[1] = y}

\* The positions of the failure list that report missing race years.
MissingYearReports ==
    {i \in 1..Len(gFailures) : gFailures[i].check = "missing_race_years"}

\* The value v lists exactly the years of S, in increasing order.
ListsIncreasing(v, S) ==
    /\ v \in Seq(Years)
    /\ {v[i] : i \in 1..Len(v)} = S
    /\ \A i \in 1..Len(v) : \A j \in 1..Len(v) : i < j => v[i] < v[j]

\* What the gate reports about missing years when the year query answers.
YearsReported ==
    IF YearsWithoutRace # {}
    THEN /\ Cardinality(MissingYearReports) = 1
         /\ \A i \in MissingYearReports :
              /\ gFailures[i].expected = "All years"
              /\ ListsIncreasing(gFailures[i].value, YearsWithoutRace)
    ELSE MissingYearReports = {}

\* C32 (as stated): the gate reports exactly one missing_race_years failure
\* when some year of the range has no race row, listing every such year in
\* increasing order, and no such failure when every year has a race row.
C32_MissingYearsOnly ==
    gOutcome = "returned" => YearsReported

\* C32 (amended): as stated when the year query answers; when the year query
\* raises, exactly one missing_race_years failure reports the query error.
C32_MissingYears ==
    gOutcome = "returned" =>
        IF gFault = "missing_race_years"
        THEN /\ Cardinality(MissingYearReports) = 1
             /\ \A i \in MissingYearReports :
                  gFailures[i].expected = "query_success"
        ELSE YearsReported

\* The gate returned from a store that has a race outside the range only,
\* and reported both years of the range, the earlier first.
C32_Witness ==
    /\ gOutcome = "returned"
    /\ gFault = "none"
    /\ gRaces # {}
    /\ YearsWithoutRace = Years
    /\ \E i \in MissingYearReports :
         gFailures[i].value = <<StartYear, StartYear + 1>>

\* C15: when the query of a check raises, whichever check it is,
\* run_quality_checks returns its failure list instead of raising, and the
\* list reports that check.
C15_ErrorIsolation ==
    (gOutcome # "none" /\ gFault # "none") =>
        /\ gOutcome = "returned"
        /\ \E i \in 1..Len(gFailures) : gFailures[i].check = gFault

\* C33: run_quality_checks never raises because a check failed, it returns
\* the failures as data; on a returned list run_full_pipeline raises exactly
\* when the list is not empty and CI or GITHUB_ACTIONS is "true", and
\* otherwise warns about a non-empty list and completes.
C33_FailOnQuality ==
    /\ gOutcome = "raised" => gFault \in BatteryNames
    /\ (gOutcome = "returned" /\ pOutcome # "none") =>
           IF gFailures # <<>> /\ (envCI = "true" \/ envGHA = "true")
           THEN pOutcome = "raised"
           ELSE pOutcome = IF gFailures # <<>> THEN "warned" ELSE "passed"

\* A check failed on its data, no query raised, the gate returned the
\* failure and, with GITHUB_ACTIONS alone set to "true", the pipeline raised.
C33_Witness ==
    /\ gFault = "none"
    /\ gDeviant # "none"
    /\ gOutcome = "returned"
    /\ \E i \in 1..Len(gFailures) : gFailures[i].check = gDeviant
    /\ envCI = "1"
    /\ envGHA = "true"
    /\ pOutcome = "raised"

(***************************************************************************)
(* Claims about the row-file writers.                                      *)
(***************************************************************************)
\* C10: at every moment, whichever row file the extractor is writing, the
\* destination is whole and is either the version from before the write or the
\* version being written (a write goes to the temporary sibling and is renamed
\* onto the destination).
C10_AtomicPublication ==
    /\ wDest.whole
    /\ wDest = wPrior \/ wDest = WholeFile(writes)

(***************************************************************************)
(* Claims about the progress save.                                         *)
(***************************************************************************)
\* C11: whatever a reader of the primary progress path has read, at any
\* interleaving with saves, is a complete payload: the one that was at the path
\* before the save in flight when it opened the path, or that save's payload.
C11_AtomicProgressSave ==
    (reads > 0 /\ rpc = "idle") =>
        /\ rSeen.whole
        /\ rSeen.version \in {rAtOpen.prev, rAtOpen.new}

\* A reader opened the path while a later save was under way, and read the
\* earlier payload after that save had replaced the path.
C11_Witness ==
    /\ reads > 0
    /\ rpc = "idle"
    /\ rSeen.whole
    /\ rSeen.version < rAtOpen.new
    /\ sDir[ProgressPath] # NoInode
    /\ sInodes[sDir[ProgressPath]].version > rSeen.version

\* C16: after a 429 with a numeric Retry-After hint, the delay waited before
\* the next attempt (jitter aside) lies between the base delay and
\* max_base_delay, and the base delay is set to that same clamped value.
C16_RetryAfterClamped ==
    lastResp = "429num" =>
        /\ prev_base <= lastDelay
        /\ lastDelay <= max_base_delay
        /\ base_delay = lastDelay

\* C17: a 400 or 404 ends the call at once: None is returned right after that
\* response, no further request is issued for the call, no backoff wait is made
\* for it (every wait of the call belongs to an earlier attempt), and base_delay
\* is left as it was.
C17_NotFoundNotRetried ==
    (lastResp = "404" /\ sent > 0) =>
        /\ cpc = "idle"
        /\ result = "None"
        /\ waits = sent - 1
        /\ base_delay = prev_base

\* A 404 answers the third attempt of a call, after two attempts that backed off.
C17_Witness ==
    /\ lastResp = "404"
    /\ sent = 3
    /\ cpc = "idle"
    /\ result = "None"
    /\ base_delay > init_base

\* C18: one _make_request call issues at most max_retries requests, whatever the
\* responses (429, other errors and faults each use up an attempt); the call
\* terminates, and it returns None unless its last attempt succeeded.
C18_RequestsBounded ==
    /\ sent <= max_retries
    /\ (cpc = "idle" /\ calls > 0) =>
           /\ sent >= 1
           /\ result = (IF lastResp = "ok" THEN "json" ELSE "None")

C18_BoundedRetries ==
    /\ []C18_RequestsBounded
    /\ (cpc = "try") ~> (cpc = "idle")

\* C19: between the pacing timestamp of a request and the sending of the next
\* request of the client, in the same call or in a later one, at least the
\* base_delay in force when the next request is paced has passed: the time that
\* had passed when _rate_limit began plus the time it slept.
C19_MinimumSpacing == lastSince + lastSlept >= pacedBase

\* The first request of a second call was held back by _rate_limit, under a
\* base_delay that the first call had raised.
C19_Witness ==
    /\ calls = 2
    /\ sent = 1
    /\ lastSlept > 0
    /\ lastSince > 0
    /\ pacedBase > init_base

\* C39: the consecutive-rate-limit counter is the number of 429 responses
\* received since the last successful response, or since construction.
C39_CounterCounts429s == consecutive_rate_limits = rateLimitedSince

\* The first call has backed off three times, for two 429s and one failed
\* request before the second of them, and the counter is 2.
C39_Witness ==
    /\ calls = 1
    /\ waits = 3
    /\ lastResp = "429"
    /\ consecutive_rate_limits = 2
    /\ rateLimitedSince = 2

C21_Escalated ==
    IF consecutive_rate_limits >= 3
    THEN Min((prev_base * 3) \div 2, max_base_delay)
    ELSE prev_base

C21_SustainedThrottling ==
    /\ (lastResp = "429") =>
           base_delay = Min((C21_Escalated * 5) \div 4, max_base_delay)
    /\ (lastResp = "429bad") =>
           base_delay = Min(C21_Escalated, max_base_delay)
    /\ (lastResp = "429num") =>
           base_delay = Min(Max(C21_Escalated, lastDelay), max_base_delay)

\* The third 429 in a row, with no header: base_delay has been escalated and
\* drifted, and is still under the cap.
C21_Witness ==
    /\ lastResp = "429"
    /\ consecutive_rate_limits = 3
    /\ base_delay = (((prev_base * 3) \div 2) * 5) \div 4
    /\ base_delay > (prev_base * 5) \div 4
    /\ base_delay < max_base_delay

(***************************************************************************)
(* Claims about the progress files.                                        *)
(***************************************************************************)
\* The entry of year y that _normalize_progress reads from a document.
InputRounds(data, field, y) ==
    LET entry == IF data.shape = "other" THEN NoEntry
                 ELSE IF field = "years" THEN data.years[y]
                 ELSE IF data.hasSkipped THEN data.skipped[y]
                 ELSE NoEntry
    IN  IF entry.list THEN entry.vals ELSE <<>>

\* The rounds of a list that are ints or strings of digits.
IntegerRounds(vals) ==
    {vals[i].n : i \in {j \in DOMAIN vals :
                          vals[j].kind \in {"int", "decimal", "superscript"}}}

StrictlyIncreasingInts(vals) ==
    /\ \A i \in DOMAIN vals : vals[i].kind = "int"
    /\ \A i, j \in DOMAIN vals : i < j => vals[i].n < vals[j].n

\* C25: _normalize_progress raises nothing and returns, for either mapping and
\* every year of the range, a strictly increasing list of integers that holds
\* exactly the integers and the digit strings of the input's list for that year;
\* every other value is dropped.
C25_NormalizeProgress ==
    (npc = "normalized") =>
        /\ ~nRet.raised
        /\ \A y \in Years :
             /\ StrictlyIncreasingInts(nRet.years[y])
             /\ StrictlyIncreasingInts(nRet.skipped[y])
             /\ {nRet.years[y][i].n : i \in DOMAIN nRet.years[y]}
                    = IntegerRounds(InputRounds(nBefore.primary.data, "years", y))
             /\ {nRet.skipped[y][i].n : i \in DOMAIN nRet.skipped[y]}
                    = IntegerRounds(InputRounds(nBefore.primary.data, "skipped", y))

\* The rounds of a returned progress, per mapping and year.
RoundsOf(p) ==
    [f \in {"years", "skipped"} |->
        [y \in Years |->
            LET vals == IF f = "years" THEN p.years[y] ELSE p.skipped[y]
            IN  {vals[i].n : i \in DOMAIN vals}]]

\* The file holds a progress document that can be read: it parses and normalizes.
Readable(file) ==
    file.kind = "json" /\ ~NormalizeProgressJson(file.data).raised

\* C38: after _save_progress with the range [s, e] the two mappings of the
\* file hold exactly the years s..e, each with the rounds the data had for
\* it; what the file held before for other years is gone.
C38_ProgressScoped ==
    scpc = "saved" =>
        LET range == scRange[1]..scRange[2]
        IN  /\ scFile.exists
            /\ DOMAIN scFile.years = range
            /\ DOMAIN scFile.skipped = range
            /\ \A y \in range :
                 /\ scFile.years[y] =
                      IF y \in DOMAIN scData.years THEN scData.years[y] ELSE {}
                 /\ scFile.skipped[y] =
                      IF y \in DOMAIN scData.skipped THEN scData.skipped[y]
                      ELSE {}

\* A save over a file that recorded a round of the year before the range,
\* from data that records rounds of that year too: the file no longer does.
C38_Witness ==
    /\ scpc = "saved"
    /\ scRange = <<StartYear, EndYear>>
    /\ scBefore.exists
    /\ scBefore.years[StartYear - 1] = {1}
    /\ (StartYear - 1) \in DOMAIN scData.years
    /\ scData.years[StartYear - 1] = {1}
    /\ StartYear \in DOMAIN scData.years
    /\ scFile.years[StartYear] = scData.years[StartYear]
    /\ (StartYear - 1) \notin DOMAIN scFile.years

\* C26: _load_progress reads the primary path when it exists and leaves it as it
\* is; when it does not exist and the legacy path holds a readable progress file,
\* the call returns the legacy content normalized, and the primary path then
\* exists and holds the same done and skipped rounds.
C26_LegacyMigration ==
    (npc = "loaded") =>
        /\ (nBefore.primary.kind # "missing") =>
               /\ nPrimary = nBefore.primary
               /\ nRet = (IF Readable(nBefore.primary)
                          THEN NormalizeProgressJson(nBefore.primary.data)
                          ELSE BareProgress)
        /\ (nBefore.primary.kind = "missing" /\ Readable(nBefore.legacy)) =>
               /\ nRet = NormalizeProgressJson(nBefore.legacy.data)
               /\ nPrimary.kind = "json"
               /\ RoundsOf(NormalizeProgressJson(nPrimary.data)) = RoundsOf(nRet)
        /\ nLegacy = nBefore.legacy

\* A flat legacy file with an unsorted list of two rounds, one a digit string, was
\* migrated: the primary path now holds both rounds.
C26_Witness ==
    /\ npc = "loaded"
    /\ nBefore.primary.kind = "missing"
    /\ nBefore.legacy.kind = "json"
    /\ nBefore.legacy.data.shape = "flat"
    /\ nBefore.legacy.data.years[StartYear].vals
           = <<[kind |-> "decimal", n |-> 2], [kind |-> "int", n |-> 1]>>
    /\ nPrimary.kind = "json"
    /\ RoundsOf(NormalizeProgressJson(nPrimary.data))["years"][StartYear] = {1, 2}

\* The file the last _load_progress opened: the first path that existed.
OpenedFile ==
    IF nBefore.primary.kind # "missing" THEN nBefore.primary ELSE nBefore.legacy

\* C27: when the file that _load_progress opens cannot be read or parsed (or
\* its document cannot be normalized), the call raises nothing and returns a
\* progress with no done round and no skipped round, so that the loops that
\* follow find every unit of the range outside done_rounds.
C27_MalformedIsEmpty ==
    (npc = "loaded" /\ OpenedFile.kind # "missing" /\ ~Readable(OpenedFile)) =>
        /\ ~nRet.raised
        /\ \A f \in {"years", "skipped"}, y \in Years : RoundsOf(nRet)[f][y] = {}
        /\ nPrimary = nBefore.primary

\* The primary path held a file that does not parse, next to a legacy file with
\* rounds: the call returned the empty progress.
C27_Witness ==
    /\ npc = "loaded"
    /\ nBefore.primary.kind = "garbage"
    /\ Readable(nBefore.legacy)
    /\ RoundsOf(NormalizeProgressJson(nBefore.legacy.data))["years"][StartYear] # {}
    /\ nRet = BareProgress

(***************************************************************************)
(* Claims about offset pagination.                                         *)
(***************************************************************************)
\* The pages requested for list k, in order.
PagesOf(k) == SelectSeq(pgPages, LAMBDA p : p.list = k)

\* The rows of a sequence of pages, one after the other.
RECURSIVE RowsOfPages(_)
RowsOfPages(ps) ==
    IF ps = <<>> THEN <<>> ELSE Head(ps).rows \o RowsOfPages(Tail(ps))

\* The page is an absence signal, has no rows, or has fewer than limit rows.
EndsList(p) == p.absent \/ Len(p.rows) = 0 \/ Len(p.rows) < PageLimit

\* The loop has left list number i.
LeftList(i) == pgIdx > i \/ pgpc = "done"

\* C34: for each list the offsets requested are 0, limit, 2*limit, ...; the
\* loop stops at the first page that is an absence signal, empty or short;
\* the collected rows are the rows of the pages fetched, in order; and a
\* list of n rows is left after at most n \div limit + 1 requests.
C34_OffsetPagination ==
    /\ pgRows = RowsOfPages(pgPages)
    /\ \A i \in 1..Len(PagedLists(pgEntity)) :
         LET k == PagedLists(pgEntity)[i]
             ps == PagesOf(k)
         IN  /\ \A j \in 1..Len(ps) : ps[j].offset = (j - 1) * PageLimit
             /\ \A j \in 1..(Len(ps) - 1) : ~EndsList(ps[j])
             /\ LeftList(i) => (ps # <<>> /\ EndsList(ps[Len(ps)]))
             /\ Len(ps) <= (pgUpstream[k] \div PageLimit) + 1

\* The races of the first year were extracted in several pages, the last
\* one short and not empty, and the loop went on through the later years.
C34_Witness ==
    /\ pgEntity = "races"
    /\ pgpc = "done"
    /\ LET ps == PagesOf(StartYear)
       IN  /\ Len(ps) >= 2
           /\ ~ps[Len(ps)].absent
           /\ ps[Len(ps)].rows # <<>>
           /\ Len(ps[Len(ps)].rows) < PageLimit
    /\ Len(pgRows) > PageLimit

(***************************************************************************)
(* Claims about the pages of a pit-stop unit.                              *)
(***************************************************************************)
\* The loop ends at page p, the j-th of the unit: it is an absence signal or
\* has an empty race table, or its total is 0 or reached by the next offset.
EndsUnit(p, j) ==
    \/ p.kind \in {"absent", "empty"}
    \/ p.total = 0
    \/ j * PitLimit >= p.total

\* Round r has been recorded.
UnitRecorded(r) == ppRound > r \/ pppc = "returned"

\* C40: the pages of a pit-stop unit are requested at offsets 0, limit,
\* 2*limit, ... until a page ends the loop, and the unit is recorded done
\* exactly when one of its pages had a non-empty race table, skipped otherwise.
C40_PitStopPages ==
    \A r \in Rounds :
        LET pages == ppPages[r]
        IN  /\ \A j \in 1..Len(pages) : pages[j].offset = (j - 1) * PitLimit
            /\ \A j \in 1..(Len(pages) - 1) : ~EndsUnit(pages[j], j)
            /\ ~UnitRecorded(r) => ppStatus[r] = "none"
            /\ UnitRecorded(r) =>
                 /\ pages # <<>>
                 /\ EndsUnit(pages[Len(pages)], Len(pages))
                 /\ ppStatus[r] = IF \E j \in 1..Len(pages) : pages[j].kind = "rows"
                                  THEN "done" ELSE "skipped"

\* The first page of round 1 had the race, its second request got the
\* absence signal, and the round is recorded done.
C40_Witness ==
    /\ UnitRecorded(1)
    /\ Len(ppPages[1]) = 2
    /\ ppPages[1][1].kind = "rows"
    /\ ppPages[1][2].kind = "absent"
    /\ ppStatus[1] = "done"

(***************************************************************************)
(* Claims about the round enumeration.                                     *)
(***************************************************************************)
\* The rounds of year y in the races table.
TableRounds(y) == {p[2] : p \in {q \in rcRaces.rows : q[1] = y}}

\* The set of rounds the extraction walks for year y.
AttemptedSet(y) == {rcAttempted[y][i] : i \in 1..Len(rcAttempted[y])}

\* C35 (as stated): the rounds attempted for a year are the rounds of that
\* year in the races table when the table is available, and 1..24 only when
\* it is not.
C35_RoundsFromTableOnly ==
    rcpc = "done" =>
        \A y \in Years :
            AttemptedSet(y) = IF rcRaces.kind = "table" THEN TableRounds(y)
                              ELSE 1..LastGuessedRound

\* C35 (amended): the rounds attempted for a year are the rounds of that year
\* in the races table when the table is available and has a round of that
\* year, and 1..24 otherwise.
C35_RoundsFromTable ==
    rcpc = "done" =>
        \A y \in Years :
            AttemptedSet(y) =
                IF rcRaces.kind = "table" /\ TableRounds(y) # {}
                THEN TableRounds(y)
                ELSE 1..LastGuessedRound

\* The table had one round of the first year and none of the second: the
\* first year walks that round, the second walks 1..24.
C35_Witness ==
    /\ rcpc = "done"
    /\ rcRaces.kind = "table"
    /\ TableRounds(StartYear) = {2}
    /\ rcAttempted[StartYear] = <<2>>
    /\ TableRounds(StartYear + 1) = {}
    /\ Len(rcAttempted[StartYear + 1]) = LastGuessedRound

(***************************************************************************)
(* Claims about the end-to-end scenario.                                   *)
(***************************************************************************)
\* C36: on the minimal dataset, transform_all followed by load_all ends with
\* run status success, the results table holds exactly one row, and the gate
\* reports no referential-integrity and no non-negativity failure.
C36_MinimalDataset ==
    smpc = "end" =>
        /\ smStatus = "success"
        /\ Len(smStore["results"]) = 1
        /\ smFailures = {}

\* The scenario of the test ran to its end: drivers.csv without a driver_id
\* column, constructor 9, and the one result row refers to driver 1.
C36_Witness ==
    /\ smpc = "end"
    /\ "driver_id" \notin smRaw["drivers"].cols
    /\ smStatus = "success"
    /\ Len(smStore["results"]) = 1
    /\ smStore["results"][1]["driver_id"] = 1
    /\ smStore["results"][1]["constructor_id"] = 9
    /\ smStore["results"][1]["points"] = 25

====
